---- MODULE Spec2Model ----
(***************************************************************************)
(* Binah-Sigma decision service: the completion orchestrator with          *)
(* failover (llm_providers.py), the /v2/analyze and legacy                 *)
(* /binah-sigma/analyze handlers (main_v2.py), the analysis pipeline       *)
(* (engine_v2.py), the usage tracker and rate limiter (rate_limiter.py,    *)
(* auth.py) and the scoring engine (scoring_engine.py).                    *)
(*                                                                         *)
(* Handlers are coroutines on one asyncio event loop: a handler runs       *)
(* without interruption until it awaits a provider call, so `running`      *)
(* names the handler that holds the loop (0 when the loop is free).        *)
(***************************************************************************)
EXTENDS Integers, Sequences, FiniteSets, TLC

\* ------------------------------------------------------------------ bounds
MaxRequests == 1        \* request handlers alive in one run of the service
MaxHandlers == 2        \* concurrent /v2/analyze handlers in one run of the race
MaxCalls == 1           \* complete() calls alive in one run of the orchestrator alone
MaxTime == 8            \* last clock instant of a run of the rate limiter alone
MaxServiceTime == 2     \* last clock instant of a run of the service
SecondsPerMinute == 2   \* clock instants per minute bucket (scaled calendar)
MinutesPerDay == 2      \* minute buckets per day bucket (scaled calendar)
DaysPerMonth == 2       \* day buckets per month bucket (scaled calendar)
MaxTokens == 1          \* largest token usage one DeepSeek response reports
MaxCustomers == 1       \* authenticated customers
MaxRecords == 1         \* record_request calls in one run of the rate limiter alone
MaxCallDrift == 1       \* clock instants that pass during one synchronous call
ScoreStep == 10         \* spacing of the sampled dimension scores in 0 .. 100
ConfidenceStep == 25    \* spacing of the scores of two compared dimension sets
MaxListed == 3          \* tensions of a response whose tensions are enumerated
LongText == 300         \* characters of a long recommendation
MaxFragments == 3       \* fragments of a text returned by the Gemini backend

Customers == 1 .. MaxCustomers

\* --------------------------------------------------------------- constants
NoProvider == "none"    \* Python None for the optional provider override
NoError == <<"none", "none">>
NoRequest == 0
NoCustomer == 0         \* the legacy endpoint authenticates nobody
NoContent == <<"none", "none">>

\* registration order of _init_providers
ProviderNames == <<"mistral", "gemini", "deepseek">>
ProviderSet == {ProviderNames[i] : i \in 1 .. Len(ProviderNames)}
\* values a caller may send as payload.provider
Overrides == ProviderSet \cup {NoProvider, "openai"}

VARIABLES
    providers,              \* LLMOrchestrator.providers (registered names)
    fallback_order,         \* LLMOrchestrator.fallback_order
    primary_provider_name,  \* LLMOrchestrator.primary_provider_name
    last_switch,            \* how the last set_primary_provider call ended
    construction,           \* LLMOrchestrator.__init__: environment and position
    call_count,             \* LLMProvider.call_count, per adapter
    total_tokens,           \* LLMProvider.total_tokens, per adapter
    usage,                  \* UsageTracker.usage: customer -> bucket key -> count
    last_request,           \* UsageTracker.last_request: customer -> time
    now,                    \* datetime.utcnow()
    horizon,                \* the last clock instant of this run
    running,                \* handler holding the event loop, or NoRequest
    req,                    \* per handler: locals of the coroutine
    limiter,                \* rate limiter alone: the last check and the calls made
    score,                  \* scoring engine: inputs and outputs of one call
    quality                 \* quality validator: a response and what was found of it

Reqs == DOMAIN req

vars == <<providers, fallback_order, primary_provider_name, last_switch,
          construction, call_count, total_tokens, usage, last_request, now, horizon, running, req, limiter,
          score, quality>>

orchVars == <<providers, fallback_order, primary_provider_name, last_switch,
              construction>>
statVars == <<call_count, total_tokens>>
aloneVars == <<limiter, score, quality>>
trackerVars == <<usage, last_request, horizon>>

\* ------------------------------------------------- orchestrator: construction
EmptyRegistry == [providers |-> {}, fallback_order |-> <<>>]

\* the orchestrator is not under construction
NoConstruction == [pc |-> "unused", idx |-> 0, keys |-> {}, initOk |-> {}]

RegisterProviderWithKey(reg, name, keys, initOk) ==
    IF name \in keys
    THEN [providers |-> reg.providers \cup {name},
          fallback_order |-> Append(reg.fallback_order, name)]
    ELSE reg

\* one `if os.getenv(KEY): try: register` block of _init_providers
RegisterProvider(reg, name, keys, initOk) ==
    IF name \in keys /\ name \in initOk
    THEN [providers |-> reg.providers \cup {name},
          fallback_order |-> Append(reg.fallback_order, name)]
    ELSE reg

InitProviders(keys, initOk) ==
    RegisterProvider(
        RegisterProvider(
            RegisterProvider(EmptyRegistry, "mistral", keys, initOk),
            "gemini", keys, initOk),
        "deepseek", keys, initOk)

InitPrimaryAsRequested(requested, reg) == requested

\* lines 250-253: the requested primary, or the first registered adapter
InitPrimary(requested, reg) ==
    IF requested \notin reg.providers THEN reg.fallback_order[1] ELSE requested

\* -------------------------------------------------- orchestrator: try order
ProviderOrderPrimaryLast(provider, provs, primary, fallback) ==
    IF provider # NoProvider /\ provider \in provs
    THEN <<provider>>
    ELSE SelectSeq(fallback, LAMBDA p : p # primary) \o <<primary>>

ProviderOrderOverrideThenRest(provider, provs, primary, fallback) ==
    IF provider # NoProvider /\ provider \in provs
    THEN <<provider>> \o SelectSeq(fallback, LAMBDA p : p # provider)
    ELSE <<primary>> \o SelectSeq(fallback, LAMBDA p : p # primary)

\* lines 272-279 of LLMOrchestrator.complete
ProviderOrder(provider, provs, primary, fallback) ==
    IF provider # NoProvider /\ provider \in provs
    THEN <<provider>>
    ELSE <<primary>> \o SelectSeq(fallback, LAMBDA p : p # primary)

\* ------------------------------------------------------------ adapters
\* the text a backend returned: it parses as JSON or it does not
JsonTexts == {"json"}
TextClasses == JsonTexts \cup {"not_json"}

\* outcomes of one adapter call: [ok, text, err, tokens]
Success(text, tokens) == [ok |-> TRUE, text |-> text, err |-> "none", tokens |-> tokens]
Failure(err) == [ok |-> FALSE, text |-> "none", err |-> err, tokens |-> 0]

\* MistralProvider.complete: the client call raises, or the text is returned as is
MistralOutcomes ==
    {Success(t, 0) : t \in TextClasses} \cup {Failure("transport")}

\* GeminiProvider.complete: blocked or empty responses and text that does not
\* parse as JSON raise ValueError
GeminiOutcomes ==
    {Success(t, 0) : t \in JsonTexts}
        \cup {Failure("transport"), Failure("refusal"), Failure("parse")}

\* DeepSeekProvider.complete: like Mistral, and adds the reported token usage
DeepSeekOutcomes ==
    {Success(t, k) : t \in TextClasses, k \in 0 .. MaxTokens}
        \cup {Failure("transport")}

AdapterOutcomes(name) ==
    CASE name = "mistral" -> MistralOutcomes
      [] name = "gemini" -> GeminiOutcomes
      [] name = "deepseek" -> DeepSeekOutcomes

\* ------------------------------------------------------------ tier limits
Infinity == -1          \* float('inf'): a ceiling no count reaches
Tiers == {"demo", "startup", "professional", "enterprise"}

\* TierLimits.LIMITS
LIMITS ==
    [t \in Tiers |->
        CASE t = "demo" ->
                [requests_per_month |-> 3, requests_per_day |-> 3,
                 requests_per_minute |-> 1]
          [] t = "startup" ->
                [requests_per_month |-> 100, requests_per_day |-> 10,
                 requests_per_minute |-> 5]
          [] t = "professional" ->
                [requests_per_month |-> 1000, requests_per_day |-> 100,
                 requests_per_minute |-> 20]
          [] t = "enterprise" ->
                [requests_per_month |-> Infinity, requests_per_day |-> Infinity,
                 requests_per_minute |-> 100]]

GetLimitUnknownUnlimited(t, limit_type) ==
    IF t \notin DOMAIN LIMITS THEN Infinity
    ELSE IF limit_type \in DOMAIN LIMITS[t] THEN LIMITS[t][limit_type] ELSE 0

GetLimitFinite(t, limit_type) ==
    LET row == IF t \in DOMAIN LIMITS THEN LIMITS[t] ELSE LIMITS["demo"]
        v == IF limit_type \in DOMAIN row THEN row[limit_type] ELSE 0
    IN IF v = Infinity THEN LIMITS["professional"][limit_type] ELSE v

\* TierLimits.get_limit: LIMITS.get(tier, LIMITS[DEMO]).get(limit_type, 0)
GetLimit(t, limit_type) ==
    LET row == IF t \in DOMAIN LIMITS THEN LIMITS[t] ELSE LIMITS["demo"]
    IN IF limit_type \in DOMAIN row THEN row[limit_type] ELSE 0

\* Python's `current >= limit`, where limit may be float('inf')
AtOrAboveStrict(current, limit) == limit # Infinity /\ current > limit

AtOrAbove(current, limit) == limit # Infinity /\ current >= limit

\* ------------------------------------------------------------ usage tracker
Periods == <<"minute", "day", "month">>
PeriodSet == {"minute", "day", "month"}

\* UsageTracker._get_period_key at clock instant t: strftime truncates the time
\* to the period ("%Y-%m-%d %H:%M", "%Y-%m-%d", "%Y-%m")
GetPeriodKey(period, t) ==
    CASE period = "minute" -> t \div SecondsPerMinute
      [] period = "day" -> t \div (SecondsPerMinute * MinutesPerDay)
      [] period = "month" -> t \div (SecondsPerMinute * MinutesPerDay * DaysPerMonth)

\* f"{period}:{self._get_period_key(period)}"
BucketKey(period, t) == <<period, GetPeriodKey(period, t)>>

NoBuckets == [k \in {} |-> 0]

\* self.usage[customer_id].get(key, 0), the key taken at instant t
GetUsage(buckets, period, t) ==
    LET key == BucketKey(period, t)
    IN IF key \in DOMAIN buckets THEN buckets[key] ELSE 0

IncrementOverwrites(buckets, key) ==
    IF key \in DOMAIN buckets
    THEN [buckets EXCEPT ![key] = 1]
    ELSE buckets @@ (key :> 1)

\* self.usage[customer_id][key] += 1 on a defaultdict(int)
Increment(buckets, key) ==
    IF key \in DOMAIN buckets
    THEN [buckets EXCEPT ![key] = @ + 1]
    ELSE buckets @@ (key :> 1)

\* the loop of record_request; reads[i] is the clock at the i-th _get_period_key
RecordBuckets(buckets, reads) ==
    Increment(
        Increment(
            Increment(buckets, BucketKey("minute", reads[1])),
            BucketKey("day", reads[2])),
        BucketKey("month", reads[3]))

\* usage_info of check_limit; reads[i] is the clock at the i-th get_usage
UsageInfo(buckets, t, reads) ==
    [minute |-> GetUsage(buckets, "minute", reads[1]),
     day |-> GetUsage(buckets, "day", reads[2]),
     month |-> GetUsage(buckets, "month", reads[3]),
     limits |-> [minute |-> GetLimit(t, "requests_per_minute"),
                 day |-> GetLimit(t, "requests_per_day"),
                 month |-> GetLimit(t, "requests_per_month")]]

NoUsageInfo ==
    [minute |-> 0, day |-> 0, month |-> 0,
     limits |-> [minute |-> 0, day |-> 0, month |-> 0]]

\* the first period, from position i of Periods on, whose count is at or above
\* its ceiling ("none" when there is none): the loops of check_limit and of
\* check_rate_limit
RECURSIVE FirstExceeded(_, _)
FirstExceeded(info, i) ==
    IF i > Len(Periods) THEN "none"
    ELSE IF AtOrAbove(info[Periods[i]], info.limits[Periods[i]]) THEN Periods[i]
    ELSE FirstExceeded(info, i + 1)

\* UsageTracker.check_limit: is_within_limit
WithinLimit(info) == FirstExceeded(info, 1) = "none"

\* RateLimiter.check_rate_limit lines 147-151: exceeded_period
ExceededPeriod(info) == FirstExceeded(info, 1)

\* the length of a period in clock instants
PeriodLength(period) ==
    CASE period = "minute" -> SecondsPerMinute
      [] period = "day" -> SecondsPerMinute * MinutesPerDay
      [] period = "month" -> SecondsPerMinute * MinutesPerDay * DaysPerMonth

\* RateLimiter._get_reset_time at clock instant t: the reading truncated to
\* the period, plus one period. (Its last branch, one hour from now, needs a
\* period other than the three check_rate_limit passes.)
ResetTime(period, t) ==
    (t \div PeriodLength(period)) * PeriodLength(period) + PeriodLength(period)

\* RateLimiter.check_rate_limit: the usage snapshot when within the limits, else
\* the 429 with the exceeded period, its count and its ceiling, and the
\* X-RateLimit-Reset header; reads[4] is the clock read by _get_reset_time
CheckRateLimitOutcome(buckets, t, reads) ==
    LET info == UsageInfo(buckets, t, reads)
        period == ExceededPeriod(info)
    IN IF WithinLimit(info)
       THEN [admitted |-> TRUE, info |-> info, period |-> "none",
             current |-> 0, limit |-> 0, reset |-> 0]
       ELSE [admitted |-> FALSE, info |-> info, period |-> period,
             current |-> info[period], limit |-> info.limits[period],
             reset |-> ResetTime(period, reads[4])]

\* the clock readings a check made: three in check_limit, and one more in
\* _get_reset_time when it rejects
ReadsMade(out, reads) == IF out.admitted THEN SubSeq(reads, 1, 3) ELSE reads

Min(a, b) == IF a <= b THEN a ELSE b

\* non-decreasing clock readings of one synchronous call, from `from` on
ClockReads(from, n) ==
    {s \in [1 .. n -> from .. Min(from + MaxCallDrift, horizon)] :
        \A i \in 1 .. n - 1 : s[i] <= s[i + 1]}

\* ------------------------------------------------------------ handlers
NoResult ==
    [kind |-> "none", status |-> 0, content |-> NoContent,
     provider_used |-> "none", error |-> NoError, detail |-> "none",
     period |-> "none", current |-> 0, limit |-> 0, reset |-> 0,
     remaining |-> [minute |-> 0, day |-> 0, month |-> 0]]

NewRequest ==
    [pc |-> "idle", endpoint |-> "none", customer |-> NoCustomer,
     tier |-> "none", provider |-> NoProvider, usage_info |-> NoUsageInfo,
     provider_order |-> <<>>, idx |-> 0, last_error |-> NoError,
     attempts |-> <<>>, start_primary |-> "none",
     raw_content |-> NoContent, provider_used |-> "none",
     admitted |-> FALSE, validated |-> FALSE, record_reads |-> <<>>,
     result |-> NoResult]

\* engine_v2.py builds the one orchestrator of the service with this primary
PrimaryRequested == "mistral"

\* the HTTP status each handler maps an outcome to
StatusOf(endpoint, kind) ==
    CASE kind = "ok" -> 200
      [] kind = "rate_limited" -> 429
      [] kind = "all_failed" -> 500
      [] OTHER -> IF endpoint = "v2" THEN 502 ELSE 500

\* how run_binah_sigma (steps 2 to 7) can end on the text an adapter returned:
\* json.loads fails; or the parsed object has no "dimensions", dimensions that
\* DecisionDimensions rejects, fields that BinahSigmaResponse rejects, content
\* that QualityValidator.validate rejects; or every step passes
PipelineOutcomes(text) ==
    IF text = "not_json" THEN {"invalid_json"}
    ELSE {"missing_dimensions", "invalid_dimensions", "schema", "quality", "ok"}

\* requests_remaining of the /v2/analyze response, from the admission snapshot
Remaining(info) ==
    [p \in PeriodSet |->
        IF info.limits[p] = Infinity THEN Infinity
        ELSE info.limits[p] - info[p] - 1]

\* handlers are interchangeable: they arrive in the order of their numbers
MayArrive(r) ==
    /\ running = NoRequest
    /\ req[r].pc = "idle"
    /\ \A q \in Reqs : q < r => req[q].pc # "idle"

\* detail["error"] of the HTTPException a handler answers with: /v2/analyze
\* re-raises the 429 of the rate limiter, answers "Quality validation failed"
\* to ValidationError and to ValueError alike (both except clauses, lines
\* 142-158), and "Internal reasoning engine error" to any other exception;
\* /v1/analyze answers "Analysis failed" to every exception. json.loads
\* failures, a missing "dimensions" block and a quality rejection are all
\* raised by run_binah_sigma as ValueError. A direct caller of complete() gets
\* no HTTP answer.
DetailOf(endpoint, kind) ==
    CASE kind \in {"ok", "none", "returned"} -> "none"
      [] endpoint = "call" -> "none"
      [] endpoint = "v1" -> "Analysis failed"
      [] kind = "rate_limited" -> "Rate limit exceeded"
      [] kind \in {"all_failed", "uncaught"} -> "Internal reasoning engine error"
      [] OTHER -> "Quality validation failed"

Finish(r, res) ==
    [req[r] EXCEPT !.pc = "done",
                   !.result = [res EXCEPT
                        !.detail = DetailOf(req[r].endpoint, res.kind)]]

\* the first step of a handler: analyze_decision_v2 checks the rate limit
\* (lines 109-114), analyze_decision_v1 runs the analysis at once (line 252)
EntryPointUnchecked(endpoint) == "run"

EntryPoint(endpoint) == IF endpoint = "v2" THEN "check" ELSE "run"

\* analyze_decision_v2, lines 106-107: the authenticated customer and tier
AnalyzeV2(r, c, t, p) ==
    /\ MayArrive(r)
    /\ req' = [req EXCEPT ![r] = [@ EXCEPT !.pc = EntryPoint("v2"), !.endpoint = "v2",
                                            !.customer = c, !.tier = t,
                                            !.provider = p]]
    /\ running' = r
    /\ UNCHANGED <<orchVars, statVars, trackerVars, now, aloneVars>>

\* a caller of LLMOrchestrator.complete(messages, temperature, provider) other
\* than the pipeline
CallComplete(r, p) ==
    /\ MayArrive(r)
    /\ req' = [req EXCEPT ![r] = [@ EXCEPT !.pc = "complete", !.endpoint = "call",
                                            !.provider = p]]
    /\ running' = r
    /\ UNCHANGED <<orchVars, statVars, trackerVars, now, aloneVars>>

\* analyze_decision_v1: no authentication, no admission check
AnalyzeV1(r, p) ==
    /\ MayArrive(r)
    /\ req' = [req EXCEPT ![r] = [@ EXCEPT !.pc = EntryPoint("v1"), !.endpoint = "v1",
                                            !.provider = p]]
    /\ running' = r
    /\ UNCHANGED <<orchVars, statVars, trackerVars, now, aloneVars>>

\* rate_limiter.check_rate_limit(customer_id, tier), lines 109-114
CheckRateLimit(r) ==
    /\ running = r
    /\ req[r].pc = "check"
    /\ \E reads \in ClockReads(now, 4) :
        LET out == CheckRateLimitOutcome(usage[req[r].customer], req[r].tier, reads)
        IN /\ IF out.admitted
              THEN /\ req' = [req EXCEPT ![r] = [@ EXCEPT !.pc = "run",
                                                         !.usage_info = out.info,
                                                         !.admitted = TRUE]]
                   /\ running' = r
              ELSE /\ req' = [req EXCEPT ![r] =
                        Finish(r, [NoResult EXCEPT
                            !.kind = "rate_limited",
                            !.status = StatusOf("v2", "rate_limited"),
                            !.period = out.period,
                            !.current = out.current,
                            !.limit = out.limit,
                            !.reset = out.reset])]
                   /\ running' = NoRequest
           /\ now' = IF req'[r].admitted THEN reads[3] ELSE reads[4]
    /\ UNCHANGED <<orchVars, statVars, trackerVars, aloneVars>>

\* run_binah_sigma, lines 134-148: builds the messages, calls the orchestrator
RunBinahSigma(r) ==
    /\ running = r
    /\ req[r].pc = "run"
    /\ req' = [req EXCEPT ![r] = [@ EXCEPT !.pc = "complete"]]
    /\ UNCHANGED <<orchVars, statVars, trackerVars, now, running, aloneVars>>

\* LLMOrchestrator.complete, lines 272-281: the try order of this call
Complete(r) ==
    /\ running = r
    /\ req[r].pc = "complete"
    /\ req' = [req EXCEPT ![r] = [@ EXCEPT
            !.pc = "loop",
            !.provider_order = ProviderOrder(req[r].provider, providers,
                                             primary_provider_name, fallback_order),
            !.idx = 1,
            !.last_error = NoError,
            !.start_primary = primary_provider_name]]
    /\ UNCHANGED <<orchVars, statVars, trackerVars, now, running, aloneVars>>

NextIndexSkipping(i) == i + 2

\* the index of the adapter tried after the one at idx has failed
NextIndex(i) == i + 1

\* lines 284-290 and 297-300: the head of the loop. Past the end of the order
\* the call raises RuntimeError with the last error, which the handler turns
\* into a 500; otherwise the adapter at idx is called and the handler awaits it.
TryProvider(r) ==
    /\ running = r
    /\ req[r].pc = "loop"
    /\ LET order == req[r].provider_order
           i == req[r].idx
       IN IF i > Len(order)
          THEN /\ req' = [req EXCEPT ![r] =
                    Finish(r, [NoResult EXCEPT
                        !.kind = "all_failed",
                        !.status = StatusOf(req[r].endpoint, "all_failed"),
                        !.error = req[r].last_error])]
               /\ running' = NoRequest
          ELSE IF order[i] \notin providers
          THEN /\ req' = [req EXCEPT ![r] = [@ EXCEPT !.idx = NextIndex(i)]]
               /\ running' = r
          ELSE /\ req' = [req EXCEPT ![r] = [@ EXCEPT
                    !.pc = "awaiting",
                    !.attempts = Append(@, [provider |-> order[i],
                                            state |-> "pending",
                                            err |-> "none"])]]
               /\ running' = NoRequest
    /\ UNCHANGED <<orchVars, statVars, trackerVars, now, aloneVars>>

\* whether an adapter call that ends with `out` has passed `self.call_count += 1`
\* (Gemini counts the call before it validates the JSON)
CountsCall(name, out) == out.ok \/ (name = "gemini" /\ out.err = "parse")

\* which failures of an adapter the loop catches and advances on
CatchesTransportOnly(out) == out.err = "transport"

Catches(out) == TRUE

\* line 291: the name returned with the text
ReturnedNamePrimary(name, primary) == primary

ReturnedName(name, primary) == name

SetLast(attempts, state, err) ==
    [attempts EXCEPT ![Len(attempts)] = [@ EXCEPT !.state = state, !.err = err]]

\* lines 290-295: the awaited adapter call ends. Its text is returned with the
\* adapter's name; any exception is recorded and the loop goes on.
ProviderReturn(r, out) ==
    /\ running = NoRequest
    /\ req[r].pc = "awaiting"
    /\ LET name == req[r].provider_order[req[r].idx]
       IN /\ out \in AdapterOutcomes(name)
          /\ call_count' = [call_count EXCEPT
                ![name] = IF CountsCall(name, out) THEN @ + 1 ELSE @]
          /\ total_tokens' = [total_tokens EXCEPT ![name] = @ + out.tokens]
          /\ IF out.ok
             THEN IF req[r].endpoint = "call"
                  THEN /\ req' = [req EXCEPT ![r] =
                            [Finish(r, [NoResult EXCEPT
                                !.kind = "returned",
                                !.content = <<name, out.text>>,
                                !.provider_used =
                                    ReturnedName(name, primary_provider_name)])
                             EXCEPT !.attempts = SetLast(@, "ok", "none")]]
                       /\ running' = NoRequest
                  ELSE /\ req' = [req EXCEPT ![r] = [@ EXCEPT
                            !.pc = "pipeline",
                            !.attempts = SetLast(@, "ok", "none"),
                            !.raw_content = <<name, out.text>>,
                            !.provider_used =
                                ReturnedName(name, primary_provider_name)]]
                       /\ running' = r
             ELSE IF Catches(out)
             THEN /\ req' = [req EXCEPT ![r] = [@ EXCEPT
                        !.pc = "loop",
                        !.attempts = SetLast(@, "failed", out.err),
                        !.last_error = <<name, out.err>>,
                        !.idx = NextIndex(@)]]
                  /\ running' = r
             ELSE /\ req' = [req EXCEPT ![r] =
                        [Finish(r, [NoResult EXCEPT
                            !.kind = "uncaught",
                            !.status = 500,
                            !.error = <<name, out.err>>])
                         EXCEPT !.attempts = SetLast(@, "failed", out.err)]]
                  /\ running' = NoRequest
    /\ UNCHANGED <<orchVars, trackerVars, now, aloneVars>>

\* main_v2.py lines 117-125: record_request follows a run_binah_sigma that
\* returned, and only /v2/analyze records
ProceedsToRecordOnQualityError(kind, endpoint) ==
    kind \in {"ok", "quality"} /\ endpoint = "v2"

ProceedsToRecord(kind, endpoint) == kind = "ok" /\ endpoint = "v2"

\* run_binah_sigma, lines 150-226, and the handler's except clauses: parse,
\* extract dimensions, score, validate schema and quality
Pipeline(r, kind) ==
    /\ running = r
    /\ req[r].pc = "pipeline"
    /\ kind \in PipelineOutcomes(req[r].raw_content[2])
    /\    IF ProceedsToRecord(kind, req[r].endpoint)
          THEN /\ req' = [req EXCEPT ![r] = [@ EXCEPT !.pc = "record",
                                                     !.validated = (kind = "ok")]]
               /\ running' = r
          ELSE /\ req' = [req EXCEPT ![r] =
                    [Finish(r, [NoResult EXCEPT
                        !.kind = kind,
                        !.status = StatusOf(req[r].endpoint, kind),
                        !.content = IF kind = "ok" THEN req[r].raw_content
                                    ELSE NoContent,
                        !.provider_used = IF kind = "ok" THEN req[r].provider_used
                                          ELSE "none"])
                     EXCEPT !.validated = (kind = "ok")]]
               /\ running' = NoRequest
    /\ UNCHANGED <<orchVars, statVars, trackerVars, now, aloneVars>>

\* analyze_decision_v2, lines 124-140: usage_tracker.record_request(customer_id),
\* then the usage metadata of the response
RecordRequest(r) ==
    /\ running = r
    /\ req[r].pc = "record"
    /\ \E reads \in ClockReads(now, 4) :
        LET c == req[r].customer
        IN /\ usage' = [usage EXCEPT ![c] = RecordBuckets(@, reads)]
           /\ last_request' = [last_request EXCEPT ![c] = reads[4]]
           /\ now' = reads[4]
           /\ req' = [req EXCEPT ![r] =
                [Finish(r, [NoResult EXCEPT
                    !.kind = "ok",
                    !.status = StatusOf("v2", "ok"),
                    !.content = req[r].raw_content,
                    !.provider_used = req[r].provider_used,
                    !.remaining = Remaining(req[r].usage_info)])
                 EXCEPT !.record_reads = reads]]
    /\ running' = NoRequest
    /\ UNCHANGED <<orchVars, statVars, horizon, aloneVars>>

\* no set_primary_provider call yet
NoSwitch == [provider |-> "none", raised |-> FALSE, accepted |-> "none"]

SwitchTargetAny(p, registered, primary) == p

\* lines 311-312: the primary after set_primary_provider(p)
SwitchTarget(p, registered, primary) ==
    IF p \in registered THEN p ELSE primary

\* LLMOrchestrator.set_primary_provider, reached from admin_switch_provider:
\* the ValueError of line 314 is raised exactly when p is not registered
SetPrimaryProvider(p) ==
    /\ running = NoRequest
    /\ primary_provider_name' = SwitchTarget(p, providers, primary_provider_name)
    /\ last_switch' = [provider |-> p,
                       raised |-> p \notin providers,
                       accepted |-> IF p \in providers THEN p
                                    ELSE last_switch.accepted]
    /\ UNCHANGED <<providers, fallback_order, construction, statVars,
                   trackerVars, now, running, req, aloneVars>>

\* time passes
Tick ==
    /\ now < horizon
    /\ now' = now + 1
    /\ UNCHANGED <<orchVars, statVars, trackerVars, running, req, aloneVars>>

\* the scoring engine and the rate limiter on their own are not part of a run
\* of the service
NoScore == [state |-> "unused"]

NoLimiter == [state |-> "unused"]

NoQuality == [state |-> "unused"]

\* the service after start-up: the orchestrator built by engine_v2.py from the
\* credentials of the environment, an empty usage tracker, no request yet
Start(n, h, envs) ==
    /\ \E keys \in envs, initOk \in SUBSET ProviderSet :
        LET reg == InitProviders(keys, initOk)
        IN /\ reg.providers # {}
           /\ providers = reg.providers
           /\ fallback_order = reg.fallback_order
           /\ primary_provider_name = InitPrimary(PrimaryRequested, reg)
    /\ last_switch = NoSwitch
    /\ construction = NoConstruction
    /\ call_count = [p \in ProviderSet |-> 0]
    /\ total_tokens = [p \in ProviderSet |-> 0]
    /\ usage = [c \in Customers |-> NoBuckets]
    /\ last_request = [c \in Customers |-> -1]
    /\ now = 0
    /\ horizon = h
    /\ running = NoRequest
    /\ req = [r \in 1 .. n |-> NewRequest]
    /\ limiter = NoLimiter
    /\ quality = NoQuality
    /\ score = NoScore

\* LLMOrchestrator(primary_provider) in an environment holding the
\* credentials `keys`, where the adapters in `initOk` are those whose
\* constructor returns: __init__ (lines 213-218) empties the registry, then
\* _init_providers runs its three blocks and its final check
PrimariesRequested == ProviderSet \cup {"openai"}

InitConstruct ==
    /\ providers = {}
    /\ fallback_order = <<>>
    /\ primary_provider_name \in PrimariesRequested
    /\ last_switch = NoSwitch
    /\ construction \in [pc : {"init"}, idx : {1}, keys : SUBSET ProviderSet,
                          initOk : SUBSET ProviderSet]
    /\ call_count = [p \in ProviderSet |-> 0]
    /\ total_tokens = [p \in ProviderSet |-> 0]
    /\ usage = [c \in Customers |-> NoBuckets]
    /\ last_request = [c \in Customers |-> -1]
    /\ now = 0
    /\ horizon = 0
    /\ running = NoRequest
    /\ req = <<>>
    /\ limiter = NoLimiter
    /\ quality = NoQuality
    /\ score = NoScore

\* lines 223-246: the block of the adapter at construction.pc
InitProvider(name) ==
    /\ construction.pc = "init"
    /\ name = ProviderNames[construction.idx]
    /\ LET reg == RegisterProvider(
                    [providers |-> providers, fallback_order |-> fallback_order],
                    name, construction.keys, construction.initOk)
       IN /\ providers' = reg.providers
          /\ fallback_order' = reg.fallback_order
    /\ construction' =
            IF construction.idx < Len(ProviderNames)
            THEN [construction EXCEPT !.idx = @ + 1]
            ELSE [construction EXCEPT !.pc = "check"]
    /\ UNCHANGED <<primary_provider_name, last_switch, call_count, total_tokens,
                   usage, last_request, now, horizon, running, req, limiter,
                   score, quality>>

\* lines 247-253: RuntimeError without any adapter, else the primary is settled
CheckProviders ==
    /\ construction.pc = "check"
    /\ IF providers = {}
       THEN /\ construction' = [construction EXCEPT !.pc = "failed"]
            /\ UNCHANGED primary_provider_name
       ELSE /\ construction' = [construction EXCEPT !.pc = "done"]
            /\ primary_provider_name' =
                    InitPrimary(primary_provider_name,
                                [providers |-> providers,
                                 fallback_order |-> fallback_order])
    /\ UNCHANGED <<providers, fallback_order, last_switch, call_count,
                   total_tokens, usage, last_request, now, horizon, running,
                   req, limiter, score, quality>>

NextConstruct ==
    \/ \E name \in ProviderSet : InitProvider(name)
    \/ CheckProviders

SpecConstruct == InitConstruct /\ [][NextConstruct]_vars

\* the orchestrator under concurrent complete() calls with every provider
\* override, and switches of the primary
NextOrch ==
    \/ \E r \in Reqs, p \in Overrides : CallComplete(r, p)
    \/ \E r \in Reqs : Complete(r)
    \/ \E r \in Reqs : TryProvider(r)
    \/ \E r \in Reqs, out \in MistralOutcomes \cup GeminiOutcomes \cup DeepSeekOutcomes :
            ProviderReturn(r, out)
    \/ \E p \in ProviderSet \cup {"openai"} : SetPrimaryProvider(p)

InitOrch == Start(MaxCalls, 0, SUBSET ProviderSet)

SpecOrch == InitOrch /\ [][NextOrch]_vars

\* the event loop resumes every coroutine that can run, and every adapter call
\* comes back
FairSpecOrch ==
    /\ SpecOrch
    /\ \A r \in 1 .. MaxCalls :
        /\ WF_vars(Complete(r))
        /\ WF_vars(TryProvider(r))
        /\ WF_vars(\E out \in MistralOutcomes \cup GeminiOutcomes \cup DeepSeekOutcomes :
                        ProviderReturn(r, out))

\* the orchestrator from its construction on: LLMOrchestrator(primary) with
\* every requested primary in every environment, built block by block, and,
\* once the constructor has returned, complete() calls and switches of the
\* primary in any order
InitRegistry ==
    /\ providers = {}
    /\ fallback_order = <<>>
    /\ primary_provider_name \in PrimariesRequested
    /\ last_switch = NoSwitch
    /\ construction \in [pc : {"init"}, idx : {1}, keys : SUBSET ProviderSet,
                          initOk : SUBSET ProviderSet]
    /\ call_count = [p \in ProviderSet |-> 0]
    /\ total_tokens = [p \in ProviderSet |-> 0]
    /\ usage = [c \in Customers |-> NoBuckets]
    /\ last_request = [c \in Customers |-> -1]
    /\ now = 0
    /\ horizon = 0
    /\ running = NoRequest
    /\ req = [r \in 1 .. MaxCalls |-> NewRequest]
    /\ limiter = NoLimiter
    /\ quality = NoQuality
    /\ score = NoScore

\* a constructor that raised leaves no orchestrator to call
Constructed == construction.pc = "done"

NextRegistry ==
    \/ \E name \in ProviderSet : InitProvider(name)
    \/ CheckProviders
    \/ \E r \in Reqs, p \in Overrides : Constructed /\ CallComplete(r, p)
    \/ \E r \in Reqs : Constructed /\ Complete(r)
    \/ \E r \in Reqs : Constructed /\ TryProvider(r)
    \/ \E r \in Reqs, out \in MistralOutcomes \cup GeminiOutcomes \cup DeepSeekOutcomes :
            Constructed /\ ProviderReturn(r, out)
    \/ \E p \in ProviderSet \cup {"openai"} : Constructed /\ SetPrimaryProvider(p)

SpecRegistry == InitRegistry /\ [][NextRegistry]_vars

\* the service: both analyze endpoints, the switch of the primary provider and
\* the clock. The inputs of a run are
\* drawn from these sets.
ServiceTiers == {"demo", "enterprise"}
ServiceOverrides == {NoProvider, "gemini"}
ServiceOutcomes == {Success("json", 0), Success("not_json", 0), Failure("transport")}
ServiceSwitches == {"gemini", "openai"}

Next ==
    \/ \E r \in Reqs, c \in Customers, t \in ServiceTiers, p \in ServiceOverrides :
            AnalyzeV2(r, c, t, p)
    \/ \E r \in Reqs, p \in ServiceOverrides : AnalyzeV1(r, p)
    \/ \E r \in Reqs : CheckRateLimit(r)
    \/ \E r \in Reqs : RunBinahSigma(r)
    \/ \E r \in Reqs : Complete(r)
    \/ \E r \in Reqs : TryProvider(r)
    \/ \E r \in Reqs, out \in ServiceOutcomes : ProviderReturn(r, out)
    \/ \E r \in Reqs, kind \in PipelineOutcomes("json") \cup PipelineOutcomes("not_json") :
            Pipeline(r, kind)
    \/ \E r \in Reqs : RecordRequest(r)
    \/ \E p \in ServiceSwitches : SetPrimaryProvider(p)
    \/ Tick

Init == Start(MaxRequests, MaxServiceTime, SUBSET ProviderSet)

Spec == Init /\ [][Next]_vars

\* concurrent /v2/analyze handlers of a deployment with the Mistral credential
\* alone: what the handlers share is the usage tracker
RaceEnvs == {{"mistral"}}
RaceOutcomes == {Success("json", 0), Failure("transport")}
RaceKinds == {"ok", "quality"}

NextRace ==
    \/ \E r \in Reqs, c \in Customers, t \in ServiceTiers : AnalyzeV2(r, c, t, NoProvider)
    \/ \E r \in Reqs : CheckRateLimit(r)
    \/ \E r \in Reqs : RunBinahSigma(r)
    \/ \E r \in Reqs : Complete(r)
    \/ \E r \in Reqs : TryProvider(r)
    \/ \E r \in Reqs, out \in RaceOutcomes : ProviderReturn(r, out)
    \/ \E r \in Reqs, kind \in RaceKinds : Pipeline(r, kind)
    \/ \E r \in Reqs : RecordRequest(r)
    \/ Tick

InitRace == Start(MaxHandlers, MaxServiceTime, RaceEnvs)

SpecRace == InitRace /\ [][NextRace]_vars

\* two /v2/analyze requests of one customer, one after the other or
\* interleaved, over every way an adapter call and the pipeline can end
NextOutcomes ==
    \/ \E r \in Reqs, c \in Customers, t \in ServiceTiers : AnalyzeV2(r, c, t, NoProvider)
    \/ \E r \in Reqs : CheckRateLimit(r)
    \/ \E r \in Reqs : RunBinahSigma(r)
    \/ \E r \in Reqs : Complete(r)
    \/ \E r \in Reqs : TryProvider(r)
    \/ \E r \in Reqs, out \in ServiceOutcomes : ProviderReturn(r, out)
    \/ \E r \in Reqs, kind \in PipelineOutcomes("json") \cup PipelineOutcomes("not_json") :
            Pipeline(r, kind)
    \/ \E r \in Reqs : RecordRequest(r)
    \/ Tick

InitOutcomes == Start(MaxHandlers, MaxServiceTime, RaceEnvs)

SpecOutcomes == InitOutcomes /\ [][NextOutcomes]_vars

\* ------------------------------------------------------------ Gemini adapter alone
\* response.text is a sequence of fragments: the two fence markers (three
\* backticks, with and without the word json), a complete JSON value, or other
\* text (prose, a fragment of JSON, what
\* is left of a marker cut in the middle). White space around fragments is
\* immaterial to strip() and to json.loads.
Fragments == {"fence_json", "fence", "json_value", "other"}

RECURSIVE TextsUpTo(_)
TextsUpTo(n) ==
    IF n = 0 THEN {<<>>}
    ELSE LET shorter == TextsUpTo(n - 1)
         IN shorter \cup {Append(t, f) : t \in {u \in shorter : Len(u) = n - 1},
                                          f \in Fragments}

\* what self.client.generate_content does: raises, or returns a response
\* without candidates, or one whose text is a sequence of fragments (the empty
\* sequence: no text, or the empty string)
BackendResponses ==
    {[kind |-> "raises", text |-> <<>>], [kind |-> "no_candidates", text |-> <<>>]}
        \cup {[kind |-> "response", text |-> t] : t \in TextsUpTo(MaxFragments)}

\* lines 148-149: text.startswith of the "json" fence marker cuts 7 characters
CutJsonFence(text) ==
    IF text # <<>> /\ Head(text) = "fence_json" THEN Tail(text) ELSE text

\* lines 150-151: text.startswith of the bare fence marker cuts 3 characters, which leaves the
\* word json of a "json" fence marker behind
CutFence(text) ==
    IF text # <<>> /\ Head(text) = "fence" THEN Tail(text)
    ELSE IF text # <<>> /\ Head(text) = "fence_json" THEN <<"other">> \o Tail(text)
    ELSE text

\* lines 152-153: text.endswith of the bare fence marker cuts the last 3 characters
CutTrailingFence(text) ==
    IF text # <<>> /\ text[Len(text)] = "fence" THEN SubSeq(text, 1, Len(text) - 1)
    ELSE text

StripNothing(text) == text

\* lines 145-155: the cleaned text
StripFences(text) == CutTrailingFence(CutFence(CutJsonFence(text)))

\* json.loads(text) returns: the text is one JSON value
Parses(text) == text = <<"json_value">>

\* _call, lines 131-141: the exception of the client, ValueError for a
\* blocked or an empty response, else the response
ExecutorOutcome(response) ==
    CASE response.kind = "raises" -> "transport"
      [] response.kind = "no_candidates" -> "refusal"
      [] response.text = <<>> -> "refusal"
      [] OTHER -> "none"

GeminiCall == [pc |-> "executor", response |-> [kind |-> "none", text |-> <<>>],
               result |-> Failure("none")]

InitGemini ==
    /\ providers = {"gemini"}
    /\ fallback_order = <<"gemini">>
    /\ primary_provider_name = "gemini"
    /\ last_switch = NoSwitch
    /\ construction = NoConstruction
    /\ call_count = [p \in ProviderSet |-> 0]
    /\ total_tokens = [p \in ProviderSet |-> 0]
    /\ usage = [c \in Customers |-> NoBuckets]
    /\ last_request = [c \in Customers |-> -1]
    /\ now = 0
    /\ horizon = 0
    /\ running = NoRequest
    /\ req = [r \in 1 .. MaxCalls |-> GeminiCall]
    /\ limiter = NoLimiter
    /\ quality = NoQuality
    /\ score = NoScore

\* response = await loop.run_in_executor(None, _call), line 143
ExecutorReturns(r, response) ==
    /\ req[r].pc = "executor"
    /\ req' = [req EXCEPT ![r] =
            IF ExecutorOutcome(response) = "none"
            THEN [@ EXCEPT !.pc = "clean", !.response = response]
            ELSE [@ EXCEPT !.pc = "done", !.response = response,
                           !.result = Failure(ExecutorOutcome(response))]]
    /\ UNCHANGED <<orchVars, statVars, trackerVars, now, running, aloneVars>>

\* lines 144-163: count the call, clean the text, validate it, return it
CleanAndValidate(r) ==
    /\ req[r].pc = "clean"
    /\ call_count' = [call_count EXCEPT !["gemini"] = @ + 1]
    /\ req' = [req EXCEPT ![r] = [@ EXCEPT
            !.pc = "done",
            !.result = IF Parses(StripFences(req[r].response.text))
                       THEN Success("json", 0) ELSE Failure("parse")]]
    /\ UNCHANGED <<orchVars, total_tokens, trackerVars, now, running, aloneVars>>

NextGemini ==
    \/ \E r \in Reqs, response \in BackendResponses : ExecutorReturns(r, response)
    \/ \E r \in Reqs : CleanAndValidate(r)

SpecGemini == InitGemini /\ [][NextGemini]_vars

\* ------------------------------------------------------------ rate limiter alone
\* tier names a token may carry: the four tiers and one that LIMITS does not know
TierNames == Tiers \cup {"trial"}

\* the finite ceilings of LIMITS
Ceilings ==
    {LIMITS[t][k] : t \in Tiers,
                    k \in {"requests_per_minute", "requests_per_day",
                            "requests_per_month"}} \ {Infinity}

\* requests a customer may have had recorded, all in the minute the run starts
\* in, before the run starts: none, or as many as a ceiling, or one fewer
PriorCounts == {0} \cup Ceilings \cup {n - 1 : n \in Ceilings}

PriorBuckets(n) ==
    IF n = 0 THEN NoBuckets
    ELSE [k \in {BucketKey(p, 0) : p \in PeriodSet} |-> n]

NoCheck ==
    [customer |-> NoCustomer, tier |-> "none", reads |-> <<>>,
     out |-> [admitted |-> TRUE, info |-> NoUsageInfo, period |-> "none",
              current |-> 0, limit |-> 0, reset |-> 0]]

InitLimiter ==
    /\ providers = {}
    /\ fallback_order = <<>>
    /\ primary_provider_name = "none"
    /\ last_switch = NoSwitch
    /\ construction = NoConstruction
    /\ call_count = [p \in ProviderSet |-> 0]
    /\ total_tokens = [p \in ProviderSet |-> 0]
    /\ usage \in [Customers -> {PriorBuckets(n) : n \in PriorCounts}]
    /\ last_request = [c \in Customers |-> -1]
    /\ now = 0
    /\ horizon = MaxTime
    /\ running = NoRequest
    /\ req = <<>>
    /\ limiter = [checked |-> NoCheck, records |-> 0]
    /\ quality = NoQuality
    /\ score = NoScore

\* rate_limiter.check_rate_limit(customer_id, tier), called on its own
CallCheckRateLimit(c, t) ==
    /\ \E reads \in ClockReads(now, 4) :
        LET out == CheckRateLimitOutcome(usage[c], t, reads)
        IN /\ limiter' = [limiter EXCEPT !.checked =
                    [customer |-> c, tier |-> t, reads |-> ReadsMade(out, reads),
                     out |-> out]]
           /\ now' = limiter'.checked.reads[Len(limiter'.checked.reads)]
    /\ UNCHANGED <<orchVars, statVars, trackerVars, running, req, score, quality>>

\* usage_tracker.record_request(customer_id), called on its own
CallRecordRequest(c) ==
    /\ limiter.records < MaxRecords
    /\ \E reads \in ClockReads(now, 4) :
        /\ usage' = [usage EXCEPT ![c] = RecordBuckets(@, reads)]
        /\ last_request' = [last_request EXCEPT ![c] = reads[4]]
        /\ now' = reads[4]
    /\ limiter' = [limiter EXCEPT !.records = @ + 1]
    /\ UNCHANGED <<orchVars, statVars, horizon, running, req, score, quality>>

NextLimiter ==
    \/ \E c \in Customers, t \in TierNames : CallCheckRateLimit(c, t)
    \/ \E c \in Customers : CallRecordRequest(c)
    \/ Tick

SpecLimiter == InitLimiter /\ [][NextLimiter]_vars

\* ------------------------------------------------------------ usage tracker alone
\* Every public method of UsageTracker and RateLimiter, called on its own. A
\* read is modelled by what it leaves behind in the customer's buckets.
AfterGetCreating(buckets, key) ==
    IF key \in DOMAIN buckets THEN buckets ELSE buckets @@ (key :> 0)

\* self.usage[customer_id].get(key, 0), line 64: dict.get inserts nothing
AfterGet(buckets, key) == buckets

\* the customer's buckets after get_usage for minute, day and month
AfterGetUsage(buckets, reads) ==
    AfterGet(
        AfterGet(
            AfterGet(buckets, BucketKey("minute", reads[1])),
            BucketKey("day", reads[2])),
        BucketKey("month", reads[3]))

\* reset_usage, lines 111-116: clear every bucket, or set the current bucket
\* of one period to 0
AfterReset(buckets, period, t) ==
    IF period = "all" THEN NoBuckets
    ELSE [k \in DOMAIN buckets \cup {BucketKey(period, t)} |->
            IF k = BucketKey(period, t) THEN 0 ELSE buckets[k]]

TrackerCounts == {0, 1}

InitTracker ==
    /\ providers = {}
    /\ fallback_order = <<>>
    /\ primary_provider_name = "none"
    /\ last_switch = NoSwitch
    /\ construction = NoConstruction
    /\ call_count = [p \in ProviderSet |-> 0]
    /\ total_tokens = [p \in ProviderSet |-> 0]
    /\ usage \in [Customers -> {PriorBuckets(n) : n \in TrackerCounts}]
    /\ last_request = [c \in Customers |-> -1]
    /\ now = 0
    /\ horizon = MaxServiceTime
    /\ running = NoRequest
    /\ req = <<>>
    /\ limiter = [op |-> "none", records |-> 0]
    /\ quality = NoQuality
    /\ score = NoScore

TrackerFrame == <<orchVars, statVars, horizon, running, req, score, quality>>

GetUsageCall(c, period) ==
    /\ \E reads \in ClockReads(now, 1) :
        /\ usage' = [usage EXCEPT ![c] = AfterGet(@, BucketKey(period, reads[1]))]
        /\ now' = reads[1]
    /\ limiter' = [limiter EXCEPT !.op = "get_usage"]
    /\ UNCHANGED <<TrackerFrame, last_request>>

CheckLimitCall(c, t) ==
    /\ \E reads \in ClockReads(now, 3) :
        /\ usage' = [usage EXCEPT ![c] = AfterGetUsage(@, reads)]
        /\ now' = reads[3]
    /\ limiter' = [limiter EXCEPT !.op = "check_limit"]
    /\ UNCHANGED <<TrackerFrame, last_request>>

CheckRateLimitCall(c, t) ==
    /\ \E reads \in ClockReads(now, 4) :
        /\ usage' = [usage EXCEPT ![c] = AfterGetUsage(@, reads)]
        /\ now' = IF CheckRateLimitOutcome(usage[c], t, reads).admitted
                  THEN reads[3] ELSE reads[4]
    /\ limiter' = [limiter EXCEPT !.op = "check_rate_limit"]
    /\ UNCHANGED <<TrackerFrame, last_request>>

\* get_customer_stats, lines 98-109: three get_usage calls, last_request and
\* the number of buckets
GetCustomerStatsCall(c) ==
    /\ \E reads \in ClockReads(now, 3) :
        /\ usage' = [usage EXCEPT ![c] = AfterGetUsage(@, reads)]
        /\ now' = reads[3]
    /\ limiter' = [limiter EXCEPT !.op = "get_customer_stats"]
    /\ UNCHANGED <<TrackerFrame, last_request>>

RecordRequestCall(c) ==
    /\ limiter.records < MaxRecords
    /\ \E reads \in ClockReads(now, 4) :
        /\ usage' = [usage EXCEPT ![c] = RecordBuckets(@, reads)]
        /\ last_request' = [last_request EXCEPT ![c] = reads[4]]
        /\ now' = reads[4]
    /\ limiter' = [op |-> "record_request", records |-> limiter.records + 1]
    /\ UNCHANGED TrackerFrame

ResetUsageCall(c, period) ==
    /\ \E reads \in ClockReads(now, 1) :
        /\ usage' = [usage EXCEPT ![c] = AfterReset(@, period, reads[1])]
        /\ now' = IF period = "all" THEN now ELSE reads[1]
    /\ limiter' = [limiter EXCEPT !.op = "reset_usage"]
    /\ UNCHANGED <<TrackerFrame, last_request>>

NextTracker ==
    \/ \E c \in Customers, period \in PeriodSet : GetUsageCall(c, period)
    \/ \E c \in Customers, t \in ServiceTiers : CheckLimitCall(c, t)
    \/ \E c \in Customers, t \in ServiceTiers : CheckRateLimitCall(c, t)
    \/ \E c \in Customers : GetCustomerStatsCall(c)
    \/ \E c \in Customers : RecordRequestCall(c)
    \/ \E c \in Customers, period \in PeriodSet \cup {"all"} : ResetUsageCall(c, period)
    \/ Tick

SpecTracker == InitTracker /\ [][NextTracker]_vars

\* ------------------------------------------------------------ scoring engine
\* Fractions are exact integers: scores, weights, penalties, caps and indices in
\* hundredths, weighted sums in ten-thousandths.
RiskLevels == {"None", "Low", "Medium", "High", "Critical"}

\* two scores whose weighted sums fall between the hundredths
OffGridScores == {33, 77}

\* DecisionDimensions: three scores with ge=0, le=100 and a risk level
ScoreSamples ==
    {k * ScoreStep : k \in 0 .. (100 \div ScoreStep)} \cup {100} \cup OffGridScores

DecisionDimensions ==
    [clarity_score : ScoreSamples, stakeholder_benefit_score : ScoreSamples,
     feasibility_score : ScoreSamples, ethical_risk_level : RiskLevels]

INDUSTRY_WEIGHTS ==
    [general |-> [clarity |-> 20, stakeholder |-> 30, feasibility |-> 30, ethics |-> 20],
     healthcare |-> [clarity |-> 15, stakeholder |-> 25, feasibility |-> 20, ethics |-> 40],
     finance |-> [clarity |-> 25, stakeholder |-> 25, feasibility |-> 35, ethics |-> 15],
     nonprofit |-> [clarity |-> 15, stakeholder |-> 40, feasibility |-> 15, ethics |-> 30],
     technology |-> [clarity |-> 25, stakeholder |-> 25, feasibility |-> 35, ethics |-> 15]]

\* the industries a request may name: the shipped profiles and one that is not
Industries == DOMAIN INDUSTRY_WEIGHTS \cup {"retail"}

WeightsGeneralOnly(industry) == INDUSTRY_WEIGHTS["general"]

\* ScoringEngine.__init__: INDUSTRY_WEIGHTS.get(industry, INDUSTRY_WEIGHTS["general"])
Weights(industry) ==
    IF industry \in DOMAIN INDUSTRY_WEIGHTS
    THEN INDUSTRY_WEIGHTS[industry] ELSE INDUSTRY_WEIGHTS["general"]

ethical_penalties ==
    [None |-> 100, Low |-> 90, Medium |-> 60, High |-> 30, Critical |-> 0]

ethical_caps == [Critical |-> 40, High |-> 60]

RawIndexEthicsUnweighted(d, w) ==
    d.clarity_score * w.clarity
    + d.stakeholder_benefit_score * w.stakeholder
    + d.feasibility_score * w.feasibility
    + ethical_penalties[d.ethical_risk_level] * 100

\* calculate_index steps 1-3: the weighted sum, in ten-thousandths
RawIndex(d, w) ==
    d.clarity_score * w.clarity
    + d.stakeholder_benefit_score * w.stakeholder
    + d.feasibility_score * w.feasibility
    + ethical_penalties[d.ethical_risk_level] * w.ethics

ApplyCapSwapped(raw, risk_level) ==
    CASE risk_level = "High" -> Min(raw, ethical_caps["Critical"] * 100)
      [] risk_level = "Critical" -> Min(raw, ethical_caps["High"] * 100)
      [] OTHER -> raw

ApplyCapCriticalOnly(raw, risk_level) ==
    IF risk_level = "Critical"
    THEN Min(raw, ethical_caps[risk_level] * 100) ELSE raw

\* calculate_index step 4: min(raw_index, ethical_caps[risk_level])
ApplyCap(raw, risk_level) ==
    IF risk_level \in DOMAIN ethical_caps
    THEN Min(raw, ethical_caps[risk_level] * 100) ELSE raw

Round2Down(raw) == {raw \div 100}

\* round(raw_index, 2) on a binary float: the nearest hundredth, and at a sum
\* that lies half way between two hundredths the float lies to one side or the
\* other of the tie, so either neighbour
Round2(raw) ==
    LET q == raw \div 100
        m == raw % 100
    IN IF m < 50 THEN {q} ELSE IF m > 50 THEN {q + 1} ELSE {q, q + 1}

\* ScoringEngine(industry).calculate_index(dimensions): the values it may return
CalculateIndexValues(d, industry) ==
    Round2(ApplyCap(RawIndex(d, Weights(industry)), d.ethical_risk_level))

CoherenceLabels == {"Low", "Medium", "High"}

DeriveCoherenceStrict(index) ==
    IF index > 75 THEN "High"
    ELSE IF index > 50 THEN "Medium"
    ELSE "Low"

\* derive_coherence(index), the index in hundredths; 0.75 and 0.5 are binary
\* fractions, so the float comparisons are exact
DeriveCoherenceValue(index) ==
    IF index >= 75 THEN "High"
    ELSE IF index >= 50 THEN "Medium"
    ELSE "Low"

Max(a, b) == IF a >= b THEN a ELSE b

\* score_range = max(scores) - min(scores)
ScoreRange(d) ==
    Max(Max(d.clarity_score, d.stakeholder_benefit_score), d.feasibility_score)
    - Min(Min(d.clarity_score, d.stakeholder_benefit_score), d.feasibility_score)

DeriveConfidenceNoFloor(d) == 100 - ScoreRange(d)

\* derive_confidence(dimensions), in hundredths:
\* round(max(0.5, 1.0 - score_range / 100.0), 2)
DeriveConfidenceValue(d) == Max(50, 100 - ScoreRange(d))

\* a value not yet computed
NoValue == -1

InitScore ==
    /\ providers = {}
    /\ fallback_order = <<>>
    /\ primary_provider_name = "none"
    /\ last_switch = NoSwitch
    /\ construction = NoConstruction
    /\ call_count = [p \in ProviderSet |-> 0]
    /\ total_tokens = [p \in ProviderSet |-> 0]
    /\ usage = [c \in Customers |-> NoBuckets]
    /\ last_request = [c \in Customers |-> -1]
    /\ now = 0
    /\ horizon = 0
    /\ running = NoRequest
    /\ req = <<>>
    /\ limiter = NoLimiter
    /\ quality = NoQuality
    /\ \E d \in DecisionDimensions, industry \in Industries :
          score = [state |-> "dimensions", dimensions |-> d, industry |-> industry,
                   raw_index |-> NoValue, index |-> 0,
                   confidence |-> NoValue, coherence |-> "none"]

\* scorer = ScoringEngine(industry=industry); scorer.calculate_index(dimensions)
CalculateIndex ==
    /\ score.state = "dimensions"
    /\ \E index \in CalculateIndexValues(score.dimensions, score.industry) :
          score' = [score EXCEPT
                !.state = "scored",
                !.raw_index = RawIndex(score.dimensions, Weights(score.industry)),
                !.index = index]
    /\ UNCHANGED <<orchVars, statVars, trackerVars, now, running, req, limiter, quality>>

\* calculated_confidence = scorer.derive_confidence(dimensions)
DeriveConfidence ==
    /\ score.state = "scored"
    /\ score.confidence = NoValue
    /\ score' = [score EXCEPT !.confidence = DeriveConfidenceValue(score.dimensions)]
    /\ UNCHANGED <<orchVars, statVars, trackerVars, now, running, req, limiter, quality>>

\* calculated_coherence = scorer.derive_coherence(calculated_index)
DeriveCoherence ==
    /\ score.state = "scored"
    /\ score.confidence # NoValue
    /\ score.coherence = "none"
    /\ score' = [score EXCEPT !.coherence = DeriveCoherenceValue(score.index)]
    /\ UNCHANGED <<orchVars, statVars, trackerVars, now, running, req, limiter, quality>>

NextScore ==
    \/ CalculateIndex
    \/ DeriveConfidence
    \/ DeriveCoherence

SpecScore == InitScore /\ [][NextScore]_vars

\* ------------------------------------------------------------ dimensions of a provider output
\* run_binah_sigma from step 3 on, for one admitted /v2/analyze request whose
\* provider output parsed as JSON and has a "dimensions" block, and the
\* handler's record_request. The block holds whole numbers at and around the
\* bounds of a score and a risk label of the Literal or another one.
ProviderScores == {-1, 0, 50, 100, 101}

ProviderRisks == RiskLevels \cup {"Extreme"}

ProviderDimensions ==
    [clarity_score : ProviderScores, stakeholder_benefit_score : ProviderScores,
     feasibility_score : ProviderScores, ethical_risk_level : ProviderRisks]

RiskOnlyChecked(d) == d.ethical_risk_level \in RiskLevels

\* DecisionDimensions(**parsed["dimensions"]) returns: every score passes
\* ge=0 and le=100 and the risk level is one of the Literal
DimensionsAccepted(d) ==
    /\ d.clarity_score >= 0 /\ d.clarity_score <= 100
    /\ d.stakeholder_benefit_score >= 0 /\ d.stakeholder_benefit_score <= 100
    /\ d.feasibility_score >= 0 /\ d.feasibility_score <= 100
    /\ d.ethical_risk_level \in RiskLevels

DimensionIndustries == {"general", "retail"}

InitDimensions ==
    /\ providers = {"mistral"}
    /\ fallback_order = <<"mistral">>
    /\ primary_provider_name = "mistral"
    /\ last_switch = NoSwitch
    /\ construction = NoConstruction
    /\ call_count = [p \in ProviderSet |-> IF p = "mistral" THEN 1 ELSE 0]
    /\ total_tokens = [p \in ProviderSet |-> 0]
    /\ usage = [c \in Customers |-> NoBuckets]
    /\ last_request = [c \in Customers |-> -1]
    /\ now = 0
    /\ horizon = MaxServiceTime
    /\ running = 1
    /\ req = <<[NewRequest EXCEPT
                !.pc = "pipeline", !.endpoint = "v2", !.customer = 1,
                !.tier = "demo", !.admitted = TRUE,
                !.usage_info = CheckRateLimitOutcome(NoBuckets, "demo", <<0, 0, 0, 0>>).info,
                !.raw_content = <<"mistral", "json">>,
                !.provider_used = "mistral"]>>
    /\ limiter = NoLimiter
    /\ quality = NoQuality
    /\ \E d \in ProviderDimensions, industry \in DimensionIndustries :
          score = [state |-> "parsed", dimensions |-> d, industry |-> industry,
                   raw_index |-> NoValue, index |-> 0,
                   confidence |-> NoValue, coherence |-> "none"]

\* engine_v2.py line 159: dimensions = DecisionDimensions(**parsed["dimensions"]);
\* its ValidationError passes through "except Exception: raise" (lines 223-225)
\* to the handler's "except ValidationError" (main_v2.py 142-149)
ExtractDimensions ==
    /\ running = 1
    /\ req[1].pc = "pipeline"
    /\ score.state = "parsed"
    /\    IF DimensionsAccepted(score.dimensions)
          THEN /\ score' = [score EXCEPT !.state = "dimensions"]
               /\ UNCHANGED <<req, running>>
          ELSE /\ score' = [score EXCEPT !.state = "rejected"]
               /\ req' = [req EXCEPT ![1] =
                    Finish(1, [NoResult EXCEPT
                        !.kind = "invalid_dimensions",
                        !.status = StatusOf("v2", "invalid_dimensions")])]
               /\ running' = NoRequest
    /\ UNCHANGED <<orchVars, statVars, trackerVars, now, limiter, quality>>

\* steps 5 to 7, after the three scorer calls of step 4
BuildAndValidate(kind) ==
    /\ score.state = "scored"
    /\ score.coherence # "none"
    /\ kind \in {"schema", "quality", "ok"}
    /\ Pipeline(1, kind)

NextDimensions ==
    \/ ExtractDimensions
    \/ CalculateIndex
    \/ DeriveConfidence
    \/ DeriveCoherence
    \/ \E kind \in {"schema", "quality", "ok"} : BuildAndValidate(kind)
    \/ RecordRequest(1)

SpecDimensions == InitDimensions /\ [][NextDimensions]_vars

\* ------------------------------------------------------------ get_breakdown alone
\* round(x, 3) of a product of a normalised score and a weight, from
\* ten-thousandths to thousandths: the nearest, either neighbour at a tie
Round3(x) ==
    LET q == x \div 10
        m == x % 10
    IN IF m < 5 THEN {q} ELSE IF m > 5 THEN {q + 1} ELSE {q, q + 1}

\* the four entries of "components": the score, its weight and the set of
\* values round(normalized * weight, 3) may take
Components(d, w) ==
    [clarity |->
        [score |-> d.clarity_score, weight |-> w.clarity,
         contribution |-> Round3(d.clarity_score * w.clarity)],
     stakeholder_benefit |->
        [score |-> d.stakeholder_benefit_score, weight |-> w.stakeholder,
         contribution |-> Round3(d.stakeholder_benefit_score * w.stakeholder)],
     feasibility |->
        [score |-> d.feasibility_score, weight |-> w.feasibility,
         contribution |-> Round3(d.feasibility_score * w.feasibility)],
     ethics |->
        [risk_level |-> d.ethical_risk_level,
         penalty_multiplier |-> ethical_penalties[d.ethical_risk_level],
         weight |-> w.ethics,
         contribution |-> Round3(ethical_penalties[d.ethical_risk_level] * w.ethics)]]

\* line 233: "ethical_cap_applied": risk_level in self.ethical_caps
EthicalCapApplied(d) == d.ethical_risk_level \in DOMAIN ethical_caps

NoBreakdown == [state |-> "none"]

InitBreakdown ==
    /\ providers = {}
    /\ fallback_order = <<>>
    /\ primary_provider_name = "none"
    /\ last_switch = NoSwitch
    /\ construction = NoConstruction
    /\ call_count = [p \in ProviderSet |-> 0]
    /\ total_tokens = [p \in ProviderSet |-> 0]
    /\ usage = [c \in Customers |-> NoBuckets]
    /\ last_request = [c \in Customers |-> -1]
    /\ now = 0
    /\ horizon = 0
    /\ running = NoRequest
    /\ req = <<>>
    /\ limiter = NoLimiter
    /\ quality = NoQuality
    /\ \E d \in DecisionDimensions, industry \in Industries :
          score = [dimensions |-> d, industry |-> industry, breakdown |-> NoBreakdown]

\* ScoringEngine(industry).get_breakdown(dimensions): both "raw_index" and
\* "final_index" are calculate_index(dimensions), the same value twice
GetBreakdown ==
    /\ score.breakdown = NoBreakdown
    /\ \E index \in CalculateIndexValues(score.dimensions, score.industry) :
          score' = [score EXCEPT !.breakdown =
                [state |-> "returned",
                 components |-> Components(score.dimensions, Weights(score.industry)),
                 raw_index |-> index,
                 ethical_cap_applied |-> EthicalCapApplied(score.dimensions),
                 final_index |-> index,
                 industry |-> score.industry]]
    /\ UNCHANGED <<orchVars, statVars, trackerVars, now, running, req, limiter, quality>>

NextBreakdown == GetBreakdown

SpecBreakdown == InitBreakdown /\ [][NextBreakdown]_vars

\* ------------------------------------------------------------ derive_confidence alone
\* two calls of derive_confidence on dimension sets of their own
ConfidenceSamples ==
    {k * ConfidenceStep : k \in 0 .. (100 \div ConfidenceStep)} \cup {100}

ConfidenceRisks == {"None", "Critical"}

ConfidenceDimensions ==
    [clarity_score : ConfidenceSamples, stakeholder_benefit_score : ConfidenceSamples,
     feasibility_score : ConfidenceSamples, ethical_risk_level : ConfidenceRisks]

InitConfidence ==
    /\ providers = {}
    /\ fallback_order = <<>>
    /\ primary_provider_name = "none"
    /\ last_switch = NoSwitch
    /\ construction = NoConstruction
    /\ call_count = [p \in ProviderSet |-> 0]
    /\ total_tokens = [p \in ProviderSet |-> 0]
    /\ usage = [c \in Customers |-> NoBuckets]
    /\ last_request = [c \in Customers |-> -1]
    /\ now = 0
    /\ horizon = 0
    /\ running = NoRequest
    /\ req = <<>>
    /\ limiter = NoLimiter
    /\ quality = NoQuality
    /\ \E d1, d2 \in ConfidenceDimensions :
          score = [state |-> "confidence",
                   calls |-> <<[dimensions |-> d1, confidence |-> NoValue],
                               [dimensions |-> d2, confidence |-> NoValue]>>]

\* scorer.derive_confidence(dimensions), the i-th call
DeriveConfidenceCall(i) ==
    /\ score.calls[i].confidence = NoValue
    /\ score' = [score EXCEPT !.calls[i].confidence =
                        DeriveConfidenceValue(score.calls[i].dimensions)]
    /\ UNCHANGED <<orchVars, statVars, trackerVars, now, running, req, limiter, quality>>

NextConfidence == \E i \in {1, 2} : DeriveConfidenceCall(i)

SpecConfidence == InitConfidence /\ [][NextConfidence]_vars

\* ------------------------------------------------------------ derive_coherence alone
\* every index of two decimals in [0, 1], in hundredths
IndexValues == 0 .. 100

InitCoherence ==
    /\ providers = {}
    /\ fallback_order = <<>>
    /\ primary_provider_name = "none"
    /\ last_switch = NoSwitch
    /\ construction = NoConstruction
    /\ call_count = [p \in ProviderSet |-> 0]
    /\ total_tokens = [p \in ProviderSet |-> 0]
    /\ usage = [c \in Customers |-> NoBuckets]
    /\ last_request = [c \in Customers |-> -1]
    /\ now = 0
    /\ horizon = 0
    /\ running = NoRequest
    /\ req = <<>>
    /\ limiter = NoLimiter
    /\ quality = NoQuality
    /\ \E x \in IndexValues :
          score = [state |-> "coherence", index |-> x, coherence |-> "none"]

\* scorer.derive_coherence(index)
DeriveCoherenceCall ==
    /\ score.coherence = "none"
    /\ score' = [score EXCEPT !.coherence = DeriveCoherenceValue(score.index)]
    /\ UNCHANGED <<orchVars, statVars, trackerVars, now, running, req, limiter, quality>>

NextCoherence == DeriveCoherenceCall

SpecCoherence == InitCoherence /\ [][NextCoherence]_vars

\* ------------------------------------------------------------ quality validator
\* A text is its characters, its length and what lower().strip() makes of it.
FORBIDDEN_GENERIC_PHRASES ==
    <<"it depends",
      "consider all options",
      "evaluate carefully",
      "there are pros and cons",
      "further analysis needed",
      "consult with experts",
      "more research required",
      "case by case basis",
      "depends on the situation",
      "various factors to consider">>

\* len(phrase)
PhraseLength ==
    ("it depends" :> 10 @@
     "consider all options" :> 20 @@
     "evaluate carefully" :> 18 @@
     "there are pros and cons" :> 23 @@
     "further analysis needed" :> 23 @@
     "consult with experts" :> 20 @@
     "more research required" :> 22 @@
     "case by case basis" :> 18 @@
     "depends on the situation" :> 24 @@
     "various factors to consider" :> 27)

MIN_TENSIONS == 3
MIN_CONSEQUENCES == 4
MIN_RECOMMENDATION_LENGTH == 50
MIN_EXPLANATION_LENGTH == 100
MIN_ITEM_LENGTH == 10

PLACEHOLDER_VALUES == {"n/a", "none", "tbd", "todo", "placeholder", "unknown"}

\* `phrase in rec_lower` for each phrase of the list, in its order; a
\* recommendation is its length and the banned phrases its lower case contains
PhrasesIn(rec) ==
    SelectSeq(FORBIDDEN_GENERIC_PHRASES, LAMBDA ph : ph \in rec.phrases)

TooFewTensionsBelowTwo(list) == Len(list) < MIN_TENSIONS - 1

\* len(response.key_tensions) < cls.MIN_TENSIONS
TooFewTensions(list) == Len(list) < MIN_TENSIONS

\* len(response.unintended_consequences) < cls.MIN_CONSEQUENCES
TooFewConsequences(list) == Len(list) < MIN_CONSEQUENCES

\* item.lower().strip() in PLACEHOLDER_VALUES or == ""
IsPlaceholder(item) == item.norm \in PLACEHOLDER_VALUES \/ item.norm = ""

\* len(items) != len(set(items))
HasDuplicates(list) ==
    Len(list) # Cardinality({list[i].text : i \in DOMAIN list})

\* len(item) < MIN_ITEM_LENGTH, on the item as it came
TooShort(item) == item.len < MIN_ITEM_LENGTH

\* not 0.0 <= value <= 1.0, the value in hundredths
OutOfRange(value) == ~(0 <= value /\ value <= 100)

ErrorsForFirst(check, subjects) ==
    IF subjects = <<>> THEN <<>>
    ELSE <<[check |-> check, subject |-> subjects[1]]>>

\* one error of `check` for each element of a sequence
ErrorsFor(check, subjects) ==
    [i \in 1 .. Len(subjects) |-> [check |-> check, subject |-> subjects[i]]]

ErrorIf(cond, check) ==
    IF cond THEN <<[check |-> check, subject |-> "response"]>> ELSE <<>>

TextsOf(list) == [i \in 1 .. Len(list) |-> list[i].text]

\* QualityValidator.validate: the errors list, in the order of the checks
ValidationErrors(response) ==
    ErrorsFor("generic_phrase", PhrasesIn(response.binah_recommendation))
    \o ErrorIf(TooFewTensions(response.key_tensions), "insufficient_tensions")
    \o ErrorIf(TooFewConsequences(response.unintended_consequences),
               "insufficient_consequences")
    \o ErrorIf(response.binah_recommendation.len < MIN_RECOMMENDATION_LENGTH,
               "recommendation_short")
    \o ErrorIf(response.explanation_summary.len < MIN_EXPLANATION_LENGTH,
               "explanation_short")
    \o ErrorsFor("placeholder",
                 TextsOf(SelectSeq(response.key_tensions \o response.unintended_consequences,
                                   IsPlaceholder)))
    \o ErrorIf(HasDuplicates(response.key_tensions), "duplicate_tensions")
    \o ErrorIf(HasDuplicates(response.unintended_consequences), "duplicate_consequences")
    \o ErrorsFor("tension_short", TextsOf(SelectSeq(response.key_tensions, TooShort)))
    \o ErrorsFor("consequence_short",
                 TextsOf(SelectSeq(response.unintended_consequences, TooShort)))
    \o ErrorIf(OutOfRange(response.binah_sigma_index), "invalid_index")
    \o ErrorIf(OutOfRange(response.binah_sigma_confidence), "invalid_confidence")

\* the penalty of the loop over FORBIDDEN_GENERIC_PHRASES: score -= 10 for each
\* phrase found
PhrasePenaltyOnce(rec) == IF Len(PhrasesIn(rec)) > 0 THEN 10 ELSE 0

PhrasePenalty(rec) == 10 * Len(PhrasesIn(rec))

ClampAtZeroOnly(x) == Max(0, x)

\* max(0.0, min(100.0, score))
Clamp(x) == Max(0, Min(100, x))

\* QualityValidator.get_quality_score
GetQualityScore(response) ==
    Clamp(100
          - PhrasePenalty(response.binah_recommendation)
          - (IF TooFewTensions(response.key_tensions) THEN 15 ELSE 0)
          - (IF TooFewConsequences(response.unintended_consequences) THEN 15 ELSE 0)
          - (IF response.binah_recommendation.len < MIN_RECOMMENDATION_LENGTH
             THEN 10 ELSE 0)
          - (IF response.explanation_summary.len < MIN_EXPLANATION_LENGTH THEN 10 ELSE 0)
          + (IF Len(response.key_tensions) >= 5 THEN 5 ELSE 0)
          + (IF Len(response.unintended_consequences) >= 7 THEN 5 ELSE 0))

\* ---- the responses of a run
GoodTensions ==
    <<[text |-> "speed versus safety", len |-> 19, stripped |-> 19,
       norm |-> "speed versus safety"],
      [text |-> "cost versus quality", len |-> 19, stripped |-> 19,
       norm |-> "cost versus quality"],
      [text |-> "growth versus trust", len |-> 19, stripped |-> 19,
       norm |-> "growth versus trust"],
      [text |-> "short versus long term", len |-> 22, stripped |-> 22,
       norm |-> "short versus long term"],
      [text |-> "local versus global reach", len |-> 25, stripped |-> 25,
       norm |-> "local versus global reach"]>>

GoodConsequences ==
    <<[text |-> "staff turnover rises", len |-> 20, stripped |-> 20,
       norm |-> "staff turnover rises"],
      [text |-> "customers lose trust", len |-> 20, stripped |-> 20,
       norm |-> "customers lose trust"],
      [text |-> "costs move to suppliers", len |-> 23, stripped |-> 23,
       norm |-> "costs move to suppliers"],
      [text |-> "regulators take notice", len |-> 22, stripped |-> 22,
       norm |-> "regulators take notice"],
      [text |-> "rivals copy the move", len |-> 20, stripped |-> 20,
       norm |-> "rivals copy the move"],
      [text |-> "technical debt grows", len |-> 20, stripped |-> 20,
       norm |-> "technical debt grows"],
      [text |-> "training falls behind", len |-> 21, stripped |-> 21,
       norm |-> "training falls behind"]>>

\* tensions with a flaw: a padded placeholder, blanks, 9 characters, 9
\* characters padded to 11, and one of exactly 10 characters that has none
OddTensions ==
    {[text |-> "N/A       ", len |-> 10, stripped |-> 3,
       norm |-> "n/a"],
     [text |-> "          ", len |-> 10, stripped |-> 0,
       norm |-> ""],
     [text |-> "risk v it", len |-> 9, stripped |-> 9,
       norm |-> "risk v it"],
     [text |-> "risk v law", len |-> 10, stripped |-> 10,
       norm |-> "risk v law"],
     [text |-> " cost v it ", len |-> 11, stripped |-> 9,
       norm |-> "cost v it"]}

\* four consequences, the last of 8 characters padded to 12
PaddedConsequences ==
    Append(SubSeq(GoodConsequences, 1, MIN_CONSEQUENCES - 1),
           [text |-> "  it fails  ", len |-> 12, stripped |-> 8,
            norm |-> "it fails"])

RECURSIVE SeqsUpTo(_, _)
SeqsUpTo(S, n) ==
    IF n = 0 THEN {<<>>}
    ELSE LET shorter == SeqsUpTo(S, n - 1)
         IN shorter \cup {Append(q, x) : q \in {t \in shorter : Len(t) = n - 1}, x \in S}

FirstN(list, n) == SubSeq(list, 1, Min(n, Len(list)))

\* the banned phrases a recommendation of this length can contain: the first n
\* of the list, as long as they fit
RECURSIVE PhrasesLength(_)
PhrasesLength(n) ==
    IF n = 0 THEN 0 ELSE PhrasesLength(n - 1) + PhraseLength[FORBIDDEN_GENERIC_PHRASES[n]]

Recommendations(lengths) ==
    {rec \in [len : lengths,
              phrases : {{FORBIDDEN_GENERIC_PHRASES[i] : i \in 1 .. n} :
                            n \in 0 .. Len(FORBIDDEN_GENERIC_PHRASES)}] :
        PhrasesLength(Cardinality(rec.phrases)) <= rec.len}

\* responses that differ in their tensions
TensionResponses ==
    [binah_recommendation : Recommendations({MIN_RECOMMENDATION_LENGTH, LongText}) ,
     explanation_summary : {[len |-> MIN_EXPLANATION_LENGTH]},
     key_tensions : SeqsUpTo({GoodTensions[i] : i \in 1 .. MIN_TENSIONS} \cup OddTensions,
                             MaxListed),
     unintended_consequences : {FirstN(GoodConsequences, MIN_CONSEQUENCES), GoodConsequences,
                                PaddedConsequences},
     binah_sigma_index : {0, 100},
     binah_sigma_confidence : {50, 100}]

\* responses that differ in their lengths and counts
CountedResponses ==
    [binah_recommendation :
        Recommendations({MIN_RECOMMENDATION_LENGTH - 1, MIN_RECOMMENDATION_LENGTH, LongText}),
     explanation_summary : {[len |-> MIN_EXPLANATION_LENGTH - 1],
                            [len |-> MIN_EXPLANATION_LENGTH]},
     key_tensions : {FirstN(GoodTensions, n) : n \in MIN_TENSIONS - 1 .. Len(GoodTensions)},
     unintended_consequences :
        {FirstN(GoodConsequences, n) : n \in MIN_CONSEQUENCES - 1 .. Len(GoodConsequences)},
     binah_sigma_index : {0, 100, 101},
     binah_sigma_confidence : {50}]

InitQuality ==
    /\ providers = {}
    /\ fallback_order = <<>>
    /\ primary_provider_name = "none"
    /\ last_switch = NoSwitch
    /\ construction = NoConstruction
    /\ call_count = [p \in ProviderSet |-> 0]
    /\ total_tokens = [p \in ProviderSet |-> 0]
    /\ usage = [c \in Customers |-> NoBuckets]
    /\ last_request = [c \in Customers |-> -1]
    /\ now = 0
    /\ horizon = 0
    /\ running = NoRequest
    /\ req = <<>>
    /\ limiter = NoLimiter
    /\ score = NoScore
    /\ \E response \in TensionResponses \cup CountedResponses :
          quality = [state |-> "response", response |-> response,
                     verdict |-> "none", errors |-> <<>>, quality_score |-> NoValue]

\* QualityValidator.validate(response): returns, or raises ValueError with the
\* errors found
ValidateCall ==
    /\ quality.verdict = "none"
    /\ LET errors == ValidationErrors(quality.response)
       IN quality' = [quality EXCEPT
                !.errors = errors,
                !.verdict = IF errors # <<>> THEN "rejected" ELSE "passed"]
    /\ UNCHANGED <<orchVars, statVars, trackerVars, now, running, req, limiter, score>>

\* QualityValidator.get_quality_score(response)
GetQualityScoreCall ==
    /\ quality.quality_score = NoValue
    /\ quality' = [quality EXCEPT !.quality_score = GetQualityScore(quality.response)]
    /\ UNCHANGED <<orchVars, statVars, trackerVars, now, running, req, limiter, score>>

NextQuality ==
    \/ ValidateCall
    \/ GetQualityScoreCall

SpecQuality == InitQuality /\ [][NextQuality]_vars

\* ------------------------------------------------------------ claims C1-C4
\* the adapters in the order _init_providers registers them
Registered == SelectSeq(ProviderNames, LAMBDA p : p \in providers)

\* primary first, then every other registered adapter in registration order
TryOrder(primary) == <<primary>> \o SelectSeq(Registered, LAMBDA p : p # primary)

\* the adapters a call may attempt, in order: the registered override alone,
\* else the try order of the primary designated when the call started
ExpectedOrder(r) ==
    IF req[r].provider \in providers THEN <<req[r].provider>>
    ELSE TryOrder(req[r].start_primary)

CallStarted(r) == req[r].start_primary # "none"
InCall(r) == req[r].pc \in {"complete", "loop", "awaiting"}
CallRaised(r) == req[r].pc = "done" /\ req[r].result.kind = "all_failed"
CallReturned(r) ==
    \/ req[r].pc \in {"pipeline", "record"}
    \/ req[r].pc = "done" /\ req[r].endpoint = "call" /\ req[r].result.kind = "returned"
    \/ req[r].pc = "done" /\ req[r].endpoint # "call"
            /\ req[r].result.kind \notin {"rate_limited", "all_failed", "uncaught"}
ReturnedPair(r) ==
    IF req[r].pc = "done" /\ req[r].endpoint = "call"
    THEN <<req[r].result.content, req[r].result.provider_used>>
    ELSE <<req[r].raw_content, req[r].provider_used>>
Pending(r) == {i \in 1 .. Len(req[r].attempts) : req[r].attempts[i].state = "pending"}

\* C1: a complete call without override attempts the adapters one at a time, in
\* the order primary first and then the other registered adapters in
\* registration order; no adapter is attempted twice, an attempt starts only
\* after the one before it has failed, and at most one attempt is in flight.
C1_SequentialTryOrder ==
    \A r \in Reqs :
        (CallStarted(r) /\ req[r].provider = NoProvider) =>
            LET a == req[r].attempts
                order == TryOrder(req[r].start_primary)
            IN /\ Len(a) <= Len(order)
               /\ \A i \in 1 .. Len(a) : a[i].provider = order[i]
               /\ \A i, j \in 1 .. Len(a) : i # j => a[i].provider # a[j].provider
               /\ \A i \in 1 .. Len(a) - 1 : a[i].state = "failed"
               /\ Cardinality(Pending(r)) <= 1

\* a call without override, whose primary is not the first registered adapter,
\* has its third attempt in flight after two failures
C1_Witness ==
    \E r \in Reqs :
        /\ req[r].provider = NoProvider
        /\ req[r].start_primary = "gemini"
        /\ Len(req[r].attempts) = 3
        /\ req[r].attempts[3].state = "pending"
        /\ req[r].attempts[2].provider = "mistral"

\* C2: when some adapter of the try order succeeds, a call without override
\* returns the text and the name of the first adapter of the order that
\* succeeded, and no adapter after that one is called.
C2_FirstSuccessWins ==
    \A r \in Reqs :
        (CallReturned(r) /\ req[r].provider = NoProvider) =>
            LET a == req[r].attempts
                order == TryOrder(req[r].start_primary)
                k == Len(a)
            IN /\ k >= 1 /\ k <= Len(order)
               /\ a[k].state = "ok"
               /\ \A i \in 1 .. k - 1 : a[i].state = "failed" /\ a[i].provider = order[i]
               /\ ReturnedPair(r)[2] = order[k]
               /\ ReturnedPair(r)[1][1] = order[k]

\* adapters [mistral fails, gemini succeeds]: the call returned gemini's text
\* and the name gemini, and deepseek, registered too, was not called
C2_Witness ==
    \E r \in Reqs :
        /\ req[r].provider = NoProvider
        /\ req[r].pc = "done" /\ req[r].result.kind = "returned"
        /\ providers = ProviderSet
        /\ Len(req[r].attempts) = 2
        /\ req[r].attempts[1] = [provider |-> "mistral", state |-> "failed", err |-> "transport"]
        /\ req[r].result.provider_used = "gemini"
        /\ req[r].result.content = <<"gemini", "json">>

\* C3: with an override that names a registered adapter only that adapter is
\* attempted; when it fails the call fails with no other adapter called, when
\* it succeeds the reported name is the override.
C3_OverrideOnly ==
    \A r \in Reqs :
        (CallStarted(r) /\ req[r].provider \in providers) =>
            LET a == req[r].attempts
            IN /\ Len(a) <= 1
               /\ \A i \in 1 .. Len(a) : a[i].provider = req[r].provider
               /\ (Len(a) = 1 /\ a[1].state = "failed") =>
                    /\ ~CallReturned(r)
                    /\ req[r].pc = "done" => CallRaised(r)
               /\ CallReturned(r) => ReturnedPair(r)[2] = req[r].provider

\* the override deepseek, not the primary, failed with three adapters
\* registered: the call failed after that single attempt
C3_Witness ==
    \E r \in Reqs :
        /\ req[r].provider = "deepseek"
        /\ req[r].start_primary = "mistral"
        /\ providers = ProviderSet
        /\ CallRaised(r)
        /\ Len(req[r].attempts) = 1
        /\ req[r].attempts[1].state = "failed"

\* a call that has ended without a successful attempt has attempted every
\* adapter of its order, each failed, and has raised the aggregate failure
\* with the error of the last adapter attempted and without text
AllFailedRaises(r) ==
    (req[r].pc = "done" /\ ~CallReturned(r) /\ req[r].result.kind # "rate_limited") =>
        LET a == req[r].attempts
        IN /\ req[r].result.kind = "all_failed"
           /\ Len(a) = Len(ExpectedOrder(r))
           /\ \A i \in 1 .. Len(a) : a[i].state = "failed"
           /\ req[r].result.error = <<a[Len(a)].provider, a[Len(a)].err>>
           /\ req[r].result.content = NoContent
           /\ req[r].result.provider_used = "none"

\* a failed attempt of any kind that is not the last of the order is followed
\* by the next adapter: the call has not ended there
AdvancesOnAnyError(r) ==
    \A i \in 1 .. Len(req[r].attempts) :
        (req[r].attempts[i].state = "failed" /\ i < Len(ExpectedOrder(r))) =>
            \/ Len(req[r].attempts) > i
            \/ req[r].pc = "loop" /\ req[r].idx = i + 1

\* C4: the orchestrator advances on any exception of the current adapter; when
\* every adapter of the order fails the call ends, raising one aggregate
\* failure that carries the last adapter's error, and returns no text.
C4_AllFail ==
    /\ [](\A r \in Reqs : AllFailedRaises(r) /\ AdvancesOnAnyError(r))
    /\ \A r \in 1 .. MaxCalls : InCall(r) ~> (req[r].pc = "done")

\* all three adapters failed, gemini by refusing: the call raised with
\* deepseek's error
C4_Witness ==
    \E r \in Reqs :
        /\ CallRaised(r)
        /\ Len(req[r].attempts) = 3
        /\ req[r].attempts[2] = [provider |-> "gemini", state |-> "failed", err |-> "refusal"]
        /\ req[r].result.error = <<"deepseek", "transport">>


\* ------------------------------------------------------------ claims C5, C6, C9
OrchestratorInvoked(r) == req[r].pc = "complete" \/ CallStarted(r)

SnapshotWithinLimits(info) ==
    \A p \in PeriodSet : info.limits[p] = Infinity \/ info[p] < info.limits[p]

RecordStep(r) == req[r].pc = "record" /\ req'[r].pc = "done"

RecordedInMinute(c, t) ==
    {r \in Reqs :
        /\ req[r].record_reads # <<>>
        /\ req[r].customer = c
        /\ GetPeriodKey("minute", req[r].record_reads[1]) = GetPeriodKey("minute", t)}

\* C9: for every customer and every minute bucket, get_usage read in that
\* bucket equals the number of record_request calls of the customer that fell
\* in it, whatever the interleaving of the handlers.
C9_NoLostIncrement ==
    \A c \in Customers, t \in 0 .. horizon :
        GetUsage(usage[c], "minute", t) = Cardinality(RecordedInMinute(c, t))

\* two demo-tier requests of one customer, both admitted before either was
\* recorded, were recorded in the same minute bucket, which reads 2
C9_Witness ==
    \E r1, r2 \in Reqs :
        /\ r1 # r2
        /\ req[r1].customer = req[r2].customer
        /\ req[r1].tier = "demo" /\ req[r2].tier = "demo"
        /\ req[r1].record_reads # <<>> /\ req[r2].record_reads # <<>>
        /\ GetPeriodKey("minute", req[r1].record_reads[1])
                = GetPeriodKey("minute", req[r2].record_reads[1])
        /\ GetUsage(usage[req[r1].customer], "minute", req[r1].record_reads[1]) = 2

\* ------------------------------------------------------------ claims C7, C8
\* the check_rate_limit call made by this step, if it makes one
Checked == limiter'.checked

CheckStep == limiter'.checked # limiter.checked

\* the count, when the call reads it, of the customer's bucket of that period
CurrentCount(p) ==
    LET i == CHOOSE j \in 1 .. Len(Periods) : Periods[j] = p
    IN GetUsage(usage[Checked.customer], p, Checked.reads[i])

\* the ceiling of the checked tier for a period, as LIMITS has it
Ceiling(p) ==
    LIMITS[Checked.tier][CASE p = "minute" -> "requests_per_minute"
                           [] p = "day" -> "requests_per_day"
                           [] p = "month" -> "requests_per_month"]

AtCeiling == {p \in PeriodSet : Ceiling(p) # Infinity /\ CurrentCount(p) >= Ceiling(p)}

FirstAtCeiling ==
    IF "minute" \in AtCeiling THEN "minute"
    ELSE IF "day" \in AtCeiling THEN "day" ELSE "month"

\* C7: check_rate_limit rejects exactly when one of the customer's current
\* minute, day or month counts is at or above the tier's ceiling, and the
\* rejection carries the first such period in the order minute, day, month with
\* that period's count and ceiling; a demo customer with nothing recorded is
\* admitted, and with a request recorded in the current minute is rejected for
\* the period "minute" (ceiling 1)
C7_RejectsIffAtCeiling ==
    [][(CheckStep /\ Checked.tier \in Tiers) =>
          /\ Checked.out.admitted <=> (AtCeiling = {})
          /\ ~Checked.out.admitted =>
                /\ Checked.out.period = FirstAtCeiling
                /\ Checked.out.current = CurrentCount(FirstAtCeiling)
                /\ Checked.out.limit = Ceiling(FirstAtCeiling)
          /\ Checked.tier = "demo" =>
                /\ (\A p \in PeriodSet : CurrentCount(p) = 0) => Checked.out.admitted
                /\ CurrentCount("minute") >= 1 =>
                      /\ ~Checked.out.admitted
                      /\ Checked.out.period = "minute"
                      /\ Checked.out.limit = 1]_vars

\* a demo customer whose one request was recorded in this run is denied for the
\* minute, with count 1 against ceiling 1
C7_Witness ==
    /\ limiter # NoLimiter
    /\ limiter.records = 1
    /\ limiter.checked.tier = "demo"
    /\ ~limiter.checked.out.admitted
    /\ limiter.checked.out.period = "minute"
    /\ limiter.checked.out.current = 1
    /\ limiter.checked.out.limit = 1
    /\ limiter.checked.out.info.month = 1

\* C8: an enterprise customer is never rejected for the day or the month,
\* whatever was recorded: a rejection names the minute, whose ceiling is 100
C8_EnterpriseMinuteOnly ==
    (limiter # NoLimiter /\ limiter.checked.tier = "enterprise"
        /\ ~limiter.checked.out.admitted) =>
            /\ limiter.checked.out.period = "minute"
            /\ limiter.checked.out.limit = 100
            /\ limiter.checked.out.current >= 100

\* an enterprise customer with 1000 requests in the day and in the month, none of
\* them in the current minute, is admitted
C8_Witness ==
    /\ limiter # NoLimiter
    /\ limiter.checked.tier = "enterprise"
    /\ limiter.checked.out.admitted
    /\ limiter.checked.out.info.minute = 0
    /\ limiter.checked.out.info.day >= 1000
    /\ limiter.checked.out.info.month >= 1000

\* ------------------------------------------------------------ claim C10
\* C10: for every valid DecisionDimensions and every weight profile, the index
\* calculate_index returns lies in [0, 1]
C10_IndexInUnitInterval ==
    (score # NoScore /\ score.state = "scored") =>
        (score.index >= 0 /\ score.index <= 100)

\* the upper end of the interval is returned: 1.0 for three scores of 100 with
\* no ethical risk under a shipped profile
C10_Witness ==
    /\ score # NoScore
    /\ score.state = "scored"
    /\ score.industry \in DOMAIN INDUSTRY_WEIGHTS
    /\ score.dimensions.clarity_score = 100
    /\ score.dimensions.stakeholder_benefit_score = 100
    /\ score.dimensions.feasibility_score = 100
    /\ score.dimensions.ethical_risk_level = "None"
    /\ score.index = 100

\* ------------------------------------------------------------ claim C11
\* the weighted sum of the scored dimensions, in ten-thousandths, written out
\* from the weights of the profile
WeightedSum ==
    LET w == IF score.industry \in DOMAIN INDUSTRY_WEIGHTS
             THEN INDUSTRY_WEIGHTS[score.industry] ELSE INDUSTRY_WEIGHTS["general"]
        d == score.dimensions
    IN d.clarity_score * w.clarity + d.stakeholder_benefit_score * w.stakeholder
       + d.feasibility_score * w.feasibility
       + ethical_penalties[d.ethical_risk_level] * w.ethics

\* the hundredths nearest to a number of ten-thousandths
Nearest(x) ==
    {k \in 0 .. 100 : 100 * k - 50 <= x /\ x <= 100 * k + 50}

\* C11: the index is at most 0.40 when the ethical risk is "Critical" and at most
\* 0.60 when it is "High", for every profile and every scores; the cap bounds
\* the weighted sum of the uncapped scores: below the cap the index is that sum
\* rounded, at or above the cap it is the cap
C11_EthicalVeto ==
    (score # NoScore /\ score.state = "scored") =>
        LET risk == score.dimensions.ethical_risk_level
        IN /\ risk = "Critical" =>
                /\ score.index <= 40
                /\ score.index \in Nearest(IF WeightedSum < 4000 THEN WeightedSum ELSE 4000)
           /\ risk = "High" =>
                /\ score.index <= 60
                /\ score.index \in Nearest(IF WeightedSum < 6000 THEN WeightedSum ELSE 6000)

\* a "Critical" decision whose weighted sum is 0.80 is reported at the cap, 0.40
C11_Witness ==
    /\ score # NoScore
    /\ score.state = "scored"
    /\ score.dimensions.ethical_risk_level = "Critical"
    /\ score.industry = "general"
    /\ WeightedSum = 8000
    /\ score.index = 40

\* ------------------------------------------------------------ claim C12
\* the spread of the three numeric scores of the i-th call
SpreadOf(i) ==
    LET d == score.calls[i].dimensions
        S == {d.clarity_score, d.stakeholder_benefit_score, d.feasibility_score}
    IN (CHOOSE x \in S : \A y \in S : y <= x) - (CHOOSE x \in S : \A y \in S : x <= y)

ConfidenceOf(i) == score.calls[i].confidence

\* C12: of two dimension sets the one with the larger range of numeric scores
\* never has the larger confidence, whatever their ethical risk (so the
\* confidence depends on the range alone); range 0 gives 1.0; the confidence is
\* never below 0.5 nor above 1.0
C12_ConfidenceByRange ==
    (score # NoScore /\ score.state = "confidence") =>
        /\ \A i \in {1, 2} :
                ConfidenceOf(i) # NoValue =>
                    /\ ConfidenceOf(i) >= 50 /\ ConfidenceOf(i) <= 100
                    /\ SpreadOf(i) = 0 => ConfidenceOf(i) = 100
        /\ \A i, j \in {1, 2} :
                (ConfidenceOf(i) # NoValue /\ ConfidenceOf(j) # NoValue
                    /\ SpreadOf(i) >= SpreadOf(j)) =>
                        ConfidenceOf(i) <= ConfidenceOf(j)

\* two sets of different ethical risk: the one with range 25 has confidence 0.75,
\* the one with range 100 is held at the floor, 0.5
C12_Witness ==
    /\ score # NoScore
    /\ score.state = "confidence"
    /\ score.calls[1].dimensions.ethical_risk_level
            # score.calls[2].dimensions.ethical_risk_level
    /\ SpreadOf(1) = 25 /\ ConfidenceOf(1) = 75
    /\ SpreadOf(2) = 100 /\ ConfidenceOf(2) = 50

\* ------------------------------------------------------------ claim C13
\* C13: for every index x of two decimals in [0, 1], derive_coherence(x) is
\* "High" iff x >= 0.75, "Medium" iff 0.50 <= x < 0.75 and "Low" iff x < 0.50,
\* and it is exactly one of the three labels
C13_CoherenceBands ==
    (score # NoScore /\ score.state = "coherence" /\ score.coherence # "none") =>
        /\ score.coherence \in {"Low", "Medium", "High"}
        /\ score.coherence = "High" <=> score.index >= 75
        /\ score.coherence = "Medium" <=> (50 <= score.index /\ score.index < 75)
        /\ score.coherence = "Low" <=> score.index < 50

\* the index 0.75, the lower end of the "High" band, is labelled "High"
C13_Witness ==
    /\ score # NoScore
    /\ score.state = "coherence"
    /\ score.index = 75
    /\ score.coherence = "High"

\* ------------------------------------------------------------ claim C14
\* the example: healthcare, clarity 80, stakeholder benefit 70, feasibility 60,
\* ethical risk "Low", scored and labelled
ExampleScored ==
    /\ score # NoScore
    /\ score.state = "scored"
    /\ score.industry = "healthcare"
    /\ score.dimensions = [clarity_score |-> 80, stakeholder_benefit_score |-> 70,
                           feasibility_score |-> 60, ethical_risk_level |-> "Low"]
    /\ score.coherence # "none"

\* C14 as stated: the weighted sum of the example is 0.715 and the coherence of
\* its index is "Medium"
C14_ExampleAsStated ==
    ExampleScored => (score.raw_index = 7150 /\ score.coherence = "Medium")

\* C14, amended: the weighted sum of the example is 0.775
\* (0.12 + 0.175 + 0.12 + 0.36) and the coherence of its index is "High"
C14_Example ==
    ExampleScored =>
        /\ score.raw_index = 7750
        /\ score.index \in {77, 78}
        /\ score.coherence = "High"

\* the example has been scored and labelled "High"
C14_Witness == ExampleScored /\ score.coherence = "High"

\* ------------------------------------------------------------ claims C15, C16
Validated == quality # NoQuality /\ quality.verdict # "none"

\* an entry that is empty after trimming counts with the placeholders
SoundEntry(item) ==
    /\ item.len >= 10
    /\ item.norm \notin {"n/a", "none", "tbd", "todo", "placeholder", "unknown", ""}

PairwiseDistinct(list) ==
    \A i, j \in DOMAIN list : i # j => list[i].text # list[j].text

\* recommendation, explanation, consequences, index and confidence are valid
RestValid(response) ==
    /\ response.binah_recommendation.len >= 50
    /\ response.binah_recommendation.phrases = {}
    /\ response.explanation_summary.len >= 100
    /\ Len(response.unintended_consequences) >= 4
    /\ PairwiseDistinct(response.unintended_consequences)
    /\ \A i \in DOMAIN response.unintended_consequences :
            SoundEntry(response.unintended_consequences[i])
    /\ response.binah_sigma_index \in 0 .. 100
    /\ response.binah_sigma_confidence \in 0 .. 100

\* C15: of the responses whose recommendation, explanation, consequences, index
\* and confidence are valid, validate rejects every one with fewer than 3
\* tensions and accepts every one with exactly 3 tensions that are pairwise
\* distinct, not placeholders and at least 10 characters long each
C15_TensionMinimum ==
    (Validated /\ RestValid(quality.response)) =>
        LET tensions == quality.response.key_tensions
        IN /\ Len(tensions) < 3 => quality.verdict = "rejected"
           /\ (Len(tensions) = 3 /\ PairwiseDistinct(tensions)
                    /\ \A i \in DOMAIN tensions : SoundEntry(tensions[i]))
                => quality.verdict = "passed"

\* a response with 3 sound tensions, one of them of exactly 10 characters, and
\* the rest valid has passed
C15_Witness ==
    /\ Validated
    /\ RestValid(quality.response)
    /\ Len(quality.response.key_tensions) = 3
    /\ \E i \in 1 .. 3 : quality.response.key_tensions[i].len = 10
    /\ quality.verdict = "passed"

Scored == quality # NoQuality /\ quality.quality_score # NoValue

\* the bonus and the penalties other than that of the banned phrases
OtherPoints(response) ==
    (IF Len(response.key_tensions) >= 5 THEN 5 ELSE 0)
    + (IF Len(response.unintended_consequences) >= 7 THEN 5 ELSE 0)
    - (IF Len(response.key_tensions) < 3 THEN 15 ELSE 0)
    - (IF Len(response.unintended_consequences) < 4 THEN 15 ELSE 0)
    - (IF response.binah_recommendation.len < 50 THEN 10 ELSE 0)
    - (IF response.explanation_summary.len < 100 THEN 10 ELSE 0)

Clamped(x) == IF x < 0 THEN 0 ELSE IF x > 100 THEN 100 ELSE x

\* C16 as stated: the quality score is clamp(100 - P + B, 0, 100) with one
\* penalty of 10 if the recommendation contains any banned phrase
C16_PenaltyPerCategory ==
    Scored =>
        quality.quality_score =
            Clamped(100 + OtherPoints(quality.response)
                    - (IF quality.response.binah_recommendation.phrases # {}
                       THEN 10 ELSE 0))

\* C16, amended: the quality score lies in [0, 100] and is
\* clamp(100 - P + B, 0, 100) with a penalty of 10 for each banned phrase the
\* recommendation contains
C16_PenaltyPerPhrase ==
    Scored =>
        /\ quality.quality_score \in 0 .. 100
        /\ quality.quality_score =
                Clamped(100 + OtherPoints(quality.response)
                        - 10 * Cardinality(quality.response.binah_recommendation.phrases))

\* a recommendation containing all ten banned phrases, in a response short of
\* tensions and consequences, is scored 0
C16_Witness ==
    /\ Scored
    /\ Cardinality(quality.response.binah_recommendation.phrases) = 10
    /\ Len(quality.response.key_tensions) < 3
    /\ Len(quality.response.unintended_consequences) < 4
    /\ quality.quality_score = 0

\* ------------------------------------------------------------ claim C17
\* the five outcomes of an analyze request, by how the request ended
OutcomeOf(kind) ==
    CASE kind = "rate_limited" -> "admission rejection"
      [] kind = "all_failed" -> "total provider failure"
      [] kind \in {"invalid_json", "missing_dimensions"} -> "malformed provider output"
      [] kind = "quality" -> "quality-gate rejection"
      [] kind = "ok" -> "success"
      [] OTHER -> "other"

Answered(r) == req[r].pc = "done" /\ req[r].endpoint = "v2"

\* what the caller of /v2/analyze is answered: the status code and the error
\* of the detail
Signal(r) == <<req[r].result.status, req[r].result.detail>>

\* C17: every /v2/analyze request ends in one of five outcomes the caller can
\* tell apart: two requests that ended in different outcomes (admission
\* rejection, total provider failure, malformed provider output, quality-gate
\* rejection, success) were answered differently
C17_OutcomesDistinct ==
    \A r, q \in Reqs :
        /\ Answered(r) /\ Answered(q)
        /\ OutcomeOf(req[r].result.kind) # "other"
        /\ OutcomeOf(req[q].result.kind) # "other"
        /\ OutcomeOf(req[r].result.kind) # OutcomeOf(req[q].result.kind)
        => Signal(r) # Signal(q)

\* one request ended on text that is not JSON and another on a quality-gate
\* rejection
C17_Witness ==
    \E r, q \in Reqs :
        /\ Answered(r) /\ Answered(q)
        /\ req[r].result.kind = "invalid_json"
        /\ req[q].result.kind = "quality"

\* ------------------------------------------------------------ claim C18
\* a step that is a set_primary_provider call which raised, or which returned
SwitchRaised == last_switch' # last_switch /\ last_switch'.raised
SwitchReturned == last_switch' # last_switch /\ ~last_switch'.raised

\* handler r enters complete() without override in this step
EntersComplete(r) ==
    /\ req[r].pc = "complete"
    /\ req'[r].pc = "loop"
    /\ req[r].provider = NoProvider

\* C18: set_primary_provider(name) raises when name is not a registered
\* adapter and then leaves the primary and the registry unchanged; it returns
\* only for a registered name, which becomes the primary, and every complete
\* call without override made after that (until the next accepted switch)
\* attempts that adapter first
C18_SetPrimaryProvider ==
    [][/\ SwitchRaised =>
            /\ last_switch'.provider \notin providers
            /\ UNCHANGED <<providers, fallback_order, primary_provider_name>>
       /\ SwitchReturned =>
            /\ last_switch'.provider \in providers
            /\ primary_provider_name' = last_switch'.provider
            /\ UNCHANGED <<providers, fallback_order>>
       /\ \A r \in Reqs :
            /\ EntersComplete(r) /\ last_switch.accepted # "none" =>
                    /\ req'[r].provider_order[1] = last_switch.accepted
                    /\ req'[r].start_primary = last_switch.accepted
            /\ req'[r].provider = NoProvider /\ req'[r].attempts # <<>> =>
                    req'[r].attempts[1].provider = req'[r].start_primary
      ]_vars

\* after an accepted switch to gemini and a refused switch to an unregistered
\* name, a call without override has attempted gemini first
C18_Witness ==
    /\ last_switch = [provider |-> "openai", raised |-> TRUE, accepted |-> "gemini"]
    /\ \E r \in Reqs :
        /\ req[r].provider = NoProvider
        /\ req[r].attempts # <<>>
        /\ req[r].attempts[1].provider = "gemini"
        /\ req[r].start_primary = "gemini"
    /\ "mistral" \in providers

\* ------------------------------------------------------------ claim C19
\* the adapters whose credential is present and whose initialisation succeeds
Usable == construction.keys \cap construction.initOk

ConstructionEnded == construction.pc \in {"done", "failed"}

\* C19: construction registers exactly the adapters whose credential is
\* present and whose initialisation succeeds, in the order mistral, gemini,
\* deepseek; the others are skipped, and construction fails if and only if no
\* adapter is registered
C19_Construction ==
    /\ providers \subseteq Usable
    /\ ConstructionEnded =>
            /\ providers = Usable
            /\ fallback_order = SelectSeq(ProviderNames, LAMBDA p : p \in Usable)
            /\ construction.pc = "failed" <=> providers = {}
    /\ construction.pc = "done" => primary_provider_name \in providers

\* construction skipped mistral (no credential) and gemini (its initialisation
\* failed) and succeeded with deepseek alone
C19_Witness ==
    /\ construction.pc = "done"
    /\ "mistral" \notin construction.keys
    /\ "gemini" \in construction.keys \ construction.initOk
    /\ providers = {"deepseek"}
    /\ fallback_order = <<"deepseek">>

\* ------------------------------------------------------------ claim C20
CountIn(buckets, key) == IF key \in DOMAIN buckets THEN buckets[key] ELSE 0

\* the buckets of customer c that this step incremented by one
IncrementedByOne(c) ==
    {k \in DOMAIN usage'[c] : usage'[c][k] = CountIn(usage[c], k) + 1}

\* the minute, day and month buckets containing instant t
BucketsAt(t) == {BucketKey(p, t) : p \in PeriodSet}

\* C20: record_request(customer) increments by one the minute, day and month
\* buckets that are current at one and the same instant, even when the clock
\* crosses a boundary while it runs: the three incremented buckets are those
\* containing one common point in time
C20_RecordAtOneInstant ==
    [][\A c \in Customers :
            usage'[c] # usage[c] =>
                \E t \in 0 .. MaxTime : IncrementedByOne(c) = BucketsAt(t)]_vars

\* ------------------------------------------------------------ claim C21
\* this step is a check_rate_limit call that rejected
RejectStep == limiter'.checked # limiter.checked /\ ~limiter'.checked.out.admitted

\* the position of a period in the loops over minute, day, month
PeriodIndex(period) == CHOOSE i \in 1 .. Len(Periods) : Periods[i] = period

\* the clock instant at which the check read the count of the period it
\* found exceeded
OffendingInstant(chk) == chk.reads[PeriodIndex(chk.out.period)]

\* C21: a rate-limit rejection carries a reset time equal to the start of the
\* next bucket of the offending period; it is strictly later than the time of
\* the check, and at that time the offending period's count reads 0
C21_ResetAtNextBucket ==
    [][RejectStep =>
        LET chk == limiter'.checked
            period == chk.out.period
        IN /\ chk.out.reset =
                (GetPeriodKey(period, OffendingInstant(chk)) + 1) * PeriodLength(period)
           /\ chk.out.reset > chk.reads[3]
           /\ GetUsage(usage'[chk.customer], period, chk.out.reset) = 0]_vars

\* a rejection for the minute ceiling whose reset time was computed after the
\* clock had entered the next minute
C21_Witness ==
    /\ ~limiter.checked.out.admitted
    /\ limiter.checked.out.period = "minute"
    /\ GetPeriodKey("minute", limiter.checked.reads[4]) =
            GetPeriodKey("minute", limiter.checked.reads[1]) + 1

\* ------------------------------------------------------------ claim C22
ReadOps == {"get_usage", "check_limit", "check_rate_limit", "get_customer_stats"}

\* every bucket of the state before the step is still there, with a count at
\* least as high
BucketsKept ==
    \A c \in Customers :
        \A k \in DOMAIN usage[c] :
            k \in DOMAIN usage'[c] /\ usage'[c][k] >= usage[c][k]

\* C22: bucket counts are mutated only by record_request and reset_usage:
\* get_usage, check_limit, check_rate_limit and get_customer_stats leave every
\* bucket count unchanged and create no bucket, and except through
\* reset_usage no count decreases and no bucket is removed
C22_OnlyRecordMutates ==
    [][/\ limiter'.op \in ReadOps => usage' = usage
       /\ usage' # usage => limiter'.op \in {"record_request", "reset_usage"}
       /\ limiter'.op # "reset_usage" => BucketsKept]_vars

\* the reads have been called on a customer who has a bucket that the clock
\* has left behind and no bucket for the current minute
C22_Witness ==
    /\ limiter.op \in ReadOps
    /\ \E c \in Customers :
        /\ BucketKey("minute", 0) \in DOMAIN usage[c]
        /\ BucketKey("minute", now) \notin DOMAIN usage[c]

\* ------------------------------------------------------------ claim C23
\* the reference computation, in ten-thousandths: the weighted sum under the
\* weights of the requested industry ("general" for an unknown tag), capped at
\* 0.40 for Critical and at 0.60 for High
ReferenceWeights ==
    IF score.industry \in {"general", "healthcare", "finance", "nonprofit", "technology"}
    THEN INDUSTRY_WEIGHTS[score.industry]
    ELSE INDUSTRY_WEIGHTS.general

ReferencePenalty(risk) ==
    CASE risk = "None" -> 100
      [] risk = "Low" -> 90
      [] risk = "Medium" -> 60
      [] risk = "High" -> 30
      [] risk = "Critical" -> 0

ReferenceValue ==
    LET d == score.dimensions
        w == ReferenceWeights
        sum == d.clarity_score * w.clarity
               + d.stakeholder_benefit_score * w.stakeholder
               + d.feasibility_score * w.feasibility
               + ReferencePenalty(d.ethical_risk_level) * w.ethics
    IN CASE d.ethical_risk_level = "Critical" -> IF sum < 4000 THEN sum ELSE 4000
         [] d.ethical_risk_level = "High" -> IF sum < 6000 THEN sum ELSE 6000
         [] OTHER -> sum

\* C23: calculate_index equals the reference computation: the two-decimal
\* rounding of min(cap(risk), weighted sum) with the penalties 1.0, 0.9, 0.6,
\* 0.3, 0.0, the caps 0.40 and 0.60, and the weights of the requested industry
\* or of "general" for an unknown tag
C23_ReferenceComputation ==
    (score # NoScore /\ score.state = "scored") =>
        /\ 100 * score.index - 50 <= ReferenceValue
        /\ ReferenceValue <= 100 * score.index + 50
        /\ ReferenceValue % 100 # 50 =>
                score.index = (ReferenceValue + 50) \div 100

\* an unknown industry tag is scored with the "general" weights, without cap
\* for a Medium risk: 1.0*0.2 + 0.5*0.3 + 0*0.3 + 0.6*0.2 = 0.47
C23_Witness ==
    /\ score # NoScore
    /\ score.state = "scored"
    /\ score.industry = "retail"
    /\ score.dimensions =
            [clarity_score |-> 100, stakeholder_benefit_score |-> 50,
             feasibility_score |-> 0, ethical_risk_level |-> "Medium"]
    /\ score.index = 47

\* ------------------------------------------------------------ claim C24
BreakdownReturned == score # NoScore /\ score.breakdown # NoBreakdown

\* the weighted sum before the cap, in ten-thousandths, and whether the cap of
\* the risk level lies below it
UncappedSum == RawIndex(score.dimensions, Weights(score.industry))

CapClamped ==
    \/ score.dimensions.ethical_risk_level = "Critical" /\ UncappedSum > 4000
    \/ score.dimensions.ethical_risk_level = "High" /\ UncappedSum > 6000

\* C24: the ethical_cap_applied flag of get_breakdown is true if and only if
\* the ethical veto cap actually clamped the index: the risk level is High or
\* Critical and the uncapped weighted sum exceeded that level's cap
C24_CapFlagIffClamped ==
    BreakdownReturned => (score.breakdown.ethical_cap_applied <=> CapClamped)

\* a High-risk decision whose weighted sum, 0.06, is far below the cap 0.60 is
\* reported with the flag set
C24_Witness ==
    /\ BreakdownReturned
    /\ score.industry = "general"
    /\ score.dimensions =
            [clarity_score |-> 0, stakeholder_benefit_score |-> 0,
             feasibility_score |-> 0, ethical_risk_level |-> "High"]
    /\ score.breakdown.final_index = 6
    /\ score.breakdown.ethical_cap_applied

\* ------------------------------------------------------------ claim C25
\* the tensions and consequences of the validated response
ListedEntries ==
    LET all == quality.response.key_tensions \o quality.response.unintended_consequences
    IN {all[i] : i \in DOMAIN all}

\* C25: validate rejects every response in which some key tension or
\* unintended consequence is shorter than 10 characters after trimming the
\* surrounding whitespace
C25_TrimmedLengthChecked ==
    (Validated /\ \E item \in ListedEntries : item.stripped < 10) =>
        quality.verdict = "rejected"

\* a response whose only flaw is a tension of 9 characters padded to 11 has
\* passed
C25_Witness ==
    /\ Validated
    /\ quality.verdict = "passed"
    /\ \E item \in ListedEntries : item.stripped = 9 /\ item.len = 11

\* ------------------------------------------------------------ claim C26
\* the positions of a list whose entry has property P
Positions(list, P(_)) == {i \in DOMAIN list : P(list[i])}

BlankOrPlaceholder(item) ==
    item.norm \in {"n/a", "none", "tbd", "todo", "placeholder", "unknown", ""}

Below10(item) == item.len < 10

Repeats(list) == \E i, j \in DOMAIN list : i # j /\ list[i].text = list[j].text

Flag(cond) == IF cond THEN 1 ELSE 0

\* the number of violations of each rule in the validated response: one for
\* each banned phrase, placeholder entry and short entry, one for each of the
\* other rules broken
ViolationsOf(response) ==
    [generic_phrase |-> Cardinality(response.binah_recommendation.phrases),
     insufficient_tensions |-> Flag(Len(response.key_tensions) < 3),
     insufficient_consequences |-> Flag(Len(response.unintended_consequences) < 4),
     recommendation_short |-> Flag(response.binah_recommendation.len < 50),
     explanation_short |-> Flag(response.explanation_summary.len < 100),
     placeholder |->
        Cardinality(Positions(response.key_tensions, BlankOrPlaceholder))
        + Cardinality(Positions(response.unintended_consequences, BlankOrPlaceholder)),
     duplicate_tensions |-> Flag(Repeats(response.key_tensions)),
     duplicate_consequences |-> Flag(Repeats(response.unintended_consequences)),
     tension_short |-> Cardinality(Positions(response.key_tensions, Below10)),
     consequence_short |->
        Cardinality(Positions(response.unintended_consequences, Below10)),
     invalid_index |-> Flag(response.binah_sigma_index \notin 0 .. 100),
     invalid_confidence |-> Flag(response.binah_sigma_confidence \notin 0 .. 100)]

\* the entries of the raised error that report a rule
Reported(check) ==
    Cardinality({i \in DOMAIN quality.errors : quality.errors[i].check = check})

\* C26: validate accumulates: the error it raises has one entry for every
\* violation of every rule found in the response, not only the first, and it
\* raises if and only if at least one rule is violated
C26_AccumulateThenReport ==
    Validated =>
        LET found == ViolationsOf(quality.response)
        IN /\ \A check \in DOMAIN found : Reported(check) = found[check]
           /\ \A i \in DOMAIN quality.errors : quality.errors[i].check \in DOMAIN found
           /\ quality.verdict = "rejected" <=> \E check \in DOMAIN found : found[check] > 0
           /\ quality.verdict = "passed" <=> quality.errors = <<>>

\* a response that breaks six rules at once, two banned phrases among them,
\* has been rejected with seven entries
C26_Witness ==
    /\ Validated
    /\ quality.verdict = "rejected"
    /\ Len(quality.errors) = 7
    /\ Reported("generic_phrase") = 2
    /\ Reported("insufficient_tensions") = 1
    /\ Reported("insufficient_consequences") = 1
    /\ Reported("recommendation_short") = 1
    /\ Reported("explanation_short") = 1
    /\ Reported("invalid_index") = 1

\* ------------------------------------------------------------ claim C27
GeminiDone(r) == req[r].pc = "done"

\* a JSON value alone, or wrapped in the known fence markers
FencedJson ==
    {<<"json_value">>, <<"fence_json", "json_value", "fence">>, <<"fence", "json_value", "fence">>,
     <<"fence_json", "json_value">>, <<"fence", "json_value">>, <<"json_value", "fence">>}

\* the fragments of a text that are not fence markers
Payload(text) == SelectSeq(text, LAMBDA f : f \notin {"fence_json", "fence"})

\* C27: the Gemini adapter strips the known fence markers and returns text
\* only if the stripped text parses as JSON, otherwise the call fails with an
\* error; a refusal or an empty result fails with an error distinct from a
\* transport error; a failed call yields no text
C27_GeminiReturnsOnlyJson ==
    \A r \in Reqs :
        GeminiDone(r) =>
            LET response == req[r].response
                result == req[r].result
            IN /\ result \in GeminiOutcomes
               /\ result.ok =>
                    /\ response.kind = "response"
                    /\ Payload(response.text) = <<"json_value">>
                    /\ result.text \in JsonTexts
               /\ (response.kind = "response" /\ response.text \in FencedJson) => result.ok
               /\ (response.kind = "response" /\ Payload(response.text) # <<"json_value">>)
                    => ~result.ok /\ result.err # "none"
               /\ (response.kind = "no_candidates"
                        \/ (response.kind = "response" /\ response.text = <<>>))
                    => ~result.ok /\ result.err \notin {"none", "transport"}
               /\ response.kind = "raises" => ~result.ok /\ result.err = "transport"
               /\ ~result.ok => result.text = "none"

\* a JSON value inside a json fence has been returned, after the call was
\* counted
C27_Witness ==
    \E r \in Reqs :
        /\ GeminiDone(r)
        /\ req[r].response.text = <<"fence_json", "json_value", "fence">>
        /\ req[r].result = Success("json", 0)
        /\ call_count["gemini"] = 1

\* ------------------------------------------------------------ claim C28
\* a dimensions block as the claim describes it
OutsideSchema(d) ==
    \/ \E f \in {"clarity_score", "stakeholder_benefit_score", "feasibility_score"} :
            d[f] \notin 0 .. 100
    \/ d.ethical_risk_level \notin {"None", "Low", "Medium", "High", "Critical"}

\* C28: a provider output whose dimensions block has a sub-score outside
\* 0..100 or a risk level outside None, Low, Medium, High, Critical makes the
\* pipeline fail for that request: no response is produced, no index is
\* computed and no usage is recorded
C28_InvalidDimensionsFail ==
    OutsideSchema(score.dimensions) =>
        /\ score.state \in {"parsed", "rejected"}
        /\ score.raw_index = NoValue
        /\ score.confidence = NoValue
        /\ score.coherence = "none"
        /\ \A c \in Customers : usage[c] = NoBuckets /\ last_request[c] = -1
        /\ req[1].pc \in {"pipeline", "done"}
        /\ req[1].pc = "done" =>
                /\ score.state = "rejected"
                /\ req[1].result.kind = "invalid_dimensions"
                /\ req[1].result.status = 502
                /\ req[1].result.content = NoContent
                /\ ~req[1].validated

\* a block with one score of 101 has been refused with 502
C28_Witness ==
    /\ req[1].pc = "done"
    /\ score.dimensions = [clarity_score |-> 101, stakeholder_benefit_score |-> 50,
                           feasibility_score |-> 50, ethical_risk_level |-> "Low"]
    /\ req[1].result.status = 502
    /\ req[1].result.detail = "Quality validation failed"
    /\ usage[1] = NoBuckets

\* ------------------------------------------------------------ claim C29
\* the ceiling of a tier for a period, by the name LIMITS gives it
CeilingOf(tier, period) ==
    CASE period = "minute" -> LIMITS[tier].requests_per_minute
      [] period = "day" -> LIMITS[tier].requests_per_day
      [] period = "month" -> LIMITS[tier].requests_per_month

\* every request the customer has sent so far carried this tier
OnlyTier(c, tier) ==
    \A r \in Reqs : req[r].customer = c => req[r].tier = tier

\* C29: for every bounded ceiling, after any interleaving of concurrently
\* running /v2/analyze requests of one customer, the customer's recorded count
\* in any single minute, day or month bucket never exceeds the ceiling of the
\* customer's tier for that period
C29_CeilingNeverExceeded ==
    \A c \in Customers, tier \in ServiceTiers :
        OnlyTier(c, tier) =>
            \A key \in DOMAIN usage[c] :
                CeilingOf(tier, key[1]) # Infinity
                    => usage[c][key] <= CeilingOf(tier, key[1])

\* two demo requests of one customer have both been answered 200 with the
\* quota left after the first request of a minute
C29_Witness ==
    \E r1, r2 \in Reqs :
        /\ r1 < r2
        /\ req[r1].customer = req[r2].customer
        /\ req[r1].tier = "demo" /\ req[r2].tier = "demo"
        /\ req[r1].pc = "done" /\ req[r2].pc = "done"
        /\ req[r1].result.status = 200 /\ req[r2].result.status = 200
        /\ req[r1].usage_info.minute = 0 /\ req[r2].usage_info.minute = 0

\* ------------------------------------------------------------ claim C30
\* the adapter registered first: the blocks of _init_providers run in the
\* order mistral, gemini, deepseek
FirstRegistered ==
    IF "mistral" \in providers THEN "mistral"
    ELSE IF "gemini" \in providers THEN "gemini"
    ELSE "deepseek"

\* the constructor returns
ConstructionSucceeds == construction.pc = "check" /\ construction'.pc = "done"

\* C30: after a successful construction and any sequence of
\* set_primary_provider and complete calls, the registry is non-empty and
\* primary_provider_name names a registered adapter; a requested primary that
\* is not registered is replaced at construction by the first registered
\* adapter
C30_PrimaryAlwaysRegistered ==
    /\ [](construction.pc = "done" =>
            providers # {} /\ primary_provider_name \in providers)
    /\ [][ConstructionSucceeds =>
            primary_provider_name' =
                IF primary_provider_name \in providers
                THEN primary_provider_name ELSE FirstRegistered]_vars
    /\ [][construction.pc = "done" => providers' = providers]_vars

\* an orchestrator asked for mistral without its credential was built with
\* gemini as primary, was switched to deepseek, refused a switch to an
\* unregistered adapter and has a complete() call under way
C30_Witness ==
    /\ construction.pc = "done"
    /\ "mistral" \notin providers
    /\ providers = {"gemini", "deepseek"}
    /\ primary_provider_name = "deepseek"
    /\ last_switch = [provider |-> "mistral", raised |-> TRUE, accepted |-> "deepseek"]
    /\ \E r \in Reqs : req[r].pc # "idle"

\* ------------------------------------------------------------ claim C31
\* the attempts on an adapter, over all complete() calls, that ended in `state`
AttemptsEnded(name, state) ==
    {<<r, i>> \in Reqs \X (1 .. Len(ProviderNames)) :
        /\ i <= Len(req[r].attempts)
        /\ req[r].attempts[i].provider = name
        /\ req[r].attempts[i].state = state}

\* C31: each adapter's call_count equals the number of complete() calls on
\* that adapter that returned text, so a call that raised has left the
\* adapter's call_count unchanged
C31_CountsReturnedCalls ==
    \A name \in ProviderSet :
        call_count[name] = Cardinality(AttemptsEnded(name, "ok"))

\* a Gemini call has raised for invalid JSON
C31_Witness ==
    \E r \in Reqs, i \in 1 .. Len(ProviderNames) :
        /\ i <= Len(req[r].attempts)
        /\ req[r].attempts[i] = [provider |-> "gemini", state |-> "failed", err |-> "parse"]

\* ------------------------------------------------------------ claim C32
\* the instant at which record_request took the key of the period's bucket:
\* the bucket current when this request was counted in it
RecordedAt(reads, p) ==
    CASE p = "minute" -> reads[1]
      [] p = "day" -> reads[2]
      [] p = "month" -> reads[3]

\* C32: the requests_remaining a successful /v2/analyze response reports for
\* each bounded period is non-negative and equals the tier ceiling minus the
\* customer's count in the period's current bucket immediately after the
\* request was recorded, under any interleaving and any clock advance
C32_RemainingIsCeilingMinusCount ==
    [][\A r \in Reqs :
        RecordStep(r) =>
            \A p \in PeriodSet :
                CeilingOf(req[r].tier, p) # Infinity =>
                    /\ req'[r].result.remaining[p] >= 0
                    /\ req'[r].result.remaining[p] =
                            CeilingOf(req[r].tier, p)
                                - GetUsage(usage'[req[r].customer], p,
                                           RecordedAt(req'[r].record_reads, p))]_vars

\* a demo request has been answered 200 and reports no request left in the
\* minute
C32_Witness ==
    \E r \in Reqs :
        /\ req[r].pc = "done"
        /\ req[r].tier = "demo"
        /\ req[r].result.status = 200
        /\ req[r].result.remaining.minute = 0
        /\ req[r].record_reads # <<>>

\* ------------------------------------------------------------ claim C33
\* run_binah_sigma reaches get_quality_score only after validate returned
\* (engine_v2.py 199-203)
ScoredAfterPassing == quality.verdict = "passed" /\ quality.quality_score # NoValue

\* C33: every response that run_binah_sigma returns carries a quality_score
\* of exactly 100: the score is computed only after validate has passed, where
\* no penalty applies and the bonuses are clamped at 100
C33_PassedScoresHundred ==
    ScoredAfterPassing => quality.quality_score = 100

\* a response with both bonuses has passed validate and is scored 100
C33_Witness ==
    /\ ScoredAfterPassing
    /\ Len(quality.response.key_tensions) >= 5
    /\ Len(quality.response.unintended_consequences) >= 7
    /\ quality.quality_score = 100

\* ------------------------------------------------------------ claim C34
\* the risk levels from best to worst
RiskOrder == <<"None", "Low", "Medium", "High", "Critical">>

RiskRank(risk) == CHOOSE i \in 1 .. Len(RiskOrder) : RiskOrder[i] = risk

NumericFields == {"clarity_score", "stakeholder_benefit_score", "feasibility_score"}

\* the dimensions that differ from d in one numeric sub-score, which is higher
RaisedFrom(d) ==
    UNION {{[d EXCEPT ![f] = higher] : higher \in {x \in ScoreSamples : x > d[f]}} :
                f \in NumericFields}

\* the dimensions that differ from d in the risk level, which is worse
WorsenedFrom(d) ==
    {[d EXCEPT !.ethical_risk_level = worse] :
        worse \in {k \in RiskLevels : RiskRank(k) > RiskRank(d.ethical_risk_level)}}

IndexComputed == score.state = "scored"

\* C34: calculate_index is monotone for every weight profile: with the risk
\* level fixed, raising one numeric sub-score never lowers the index; with the
\* sub-scores fixed, a worse risk level never raises the index
C34_IndexMonotone ==
    IndexComputed =>
        /\ \A e \in RaisedFrom(score.dimensions) :
                \A v \in CalculateIndexValues(e, score.industry) : v >= score.index
        /\ \A e \in WorsenedFrom(score.dimensions) :
                \A v \in CalculateIndexValues(e, score.industry) : v <= score.index

\* an index held at the cap of High has been computed from dimensions that
\* can still be raised and worsened
C34_Witness ==
    /\ IndexComputed
    /\ score.dimensions.ethical_risk_level = "High"
    /\ score.index = 60
    /\ score.raw_index > 6000
    /\ RaisedFrom(score.dimensions) # {}
    /\ WorsenedFrom(score.dimensions) # {}

\* ------------------------------------------------------------ claim C35
\* a call without override during or after which the primary was switched away
\* from the one designated when the call started
SwitchedSinceStart(r) ==
    /\ CallStarted(r)
    /\ req[r].provider = NoProvider
    /\ primary_provider_name # req[r].start_primary

\* a step that changes the primary while call r is between its start and its end
SwitchDuring(r) ==
    /\ CallStarted(r)
    /\ req[r].pc \in {"loop", "awaiting"}
    /\ req[r].provider = NoProvider
    /\ primary_provider_name' # primary_provider_name

\* C35: once a complete call without override has started, a concurrent
\* set_primary_provider does not change that call's try order: the call still
\* attempts each registered adapter at most once, skips none, and keeps the
\* primary designated when it started as its first attempt
C35_SwitchLeavesTryOrder ==
    /\ [][\A r \in Reqs :
            SwitchDuring(r) =>
                /\ req'[r].provider_order = req[r].provider_order
                /\ req'[r].attempts = req[r].attempts
                /\ req'[r].idx = req[r].idx]_vars
    /\ [](\A r \in Reqs :
            SwitchedSinceStart(r) =>
                LET a == req[r].attempts
                    order == TryOrder(req[r].start_primary)
                IN /\ a # <<>> => a[1].provider = req[r].start_primary
                   /\ \A i, j \in 1 .. Len(a) : i # j => a[i].provider # a[j].provider
                   /\ Len(a) <= Len(order)
                   /\ \A i \in 1 .. Len(a) : a[i].provider = order[i]
                   /\ CallRaised(r) => {a[i].provider : i \in 1 .. Len(a)} = providers)

\* a call that started with mistral as primary has its second attempt, on
\* gemini, in flight after the primary was switched to deepseek
C35_Witness ==
    \E r \in Reqs :
        /\ req[r].provider = NoProvider
        /\ req[r].start_primary = "mistral"
        /\ primary_provider_name = "deepseek"
        /\ req[r].pc = "awaiting"
        /\ Len(req[r].attempts) = 2
        /\ req[r].attempts[1] = [provider |-> "mistral", state |-> "failed", err |-> "transport"]
        /\ req[r].attempts[2].provider = "gemini"

\* ------------------------------------------------------------ claim C36
\* the ceilings the claim names for demo
DemoCeilings == [minute |-> 1, day |-> 3, month |-> 3]

\* no tier has a bounded ceiling below demo's, and none of demo's is unbounded
DemoMostRestrictive ==
    \A t \in Tiers, p \in PeriodSet :
        /\ DemoCeilings[p] = CeilingOf("demo", p)
        /\ CeilingOf(t, p) = Infinity \/ CeilingOf(t, p) >= DemoCeilings[p]

\* C36: a tier name that is not one of demo, startup, professional, enterprise
\* is rate-limited with the demo ceilings (1/minute, 3/day, 3/month), the most
\* restrictive ones: check_rate_limit admits a customer with an unknown tier
\* only below every demo ceiling
C36_UnknownTierGetsDemoCeilings ==
    [][(CheckStep /\ Checked.tier \notin {"demo", "startup", "professional", "enterprise"}) =>
          /\ DemoMostRestrictive
          /\ Checked.out.info.limits = DemoCeilings
          /\ Checked.out.admitted <=>
                \A p \in PeriodSet : CurrentCount(p) < DemoCeilings[p]
          /\ ~Checked.out.admitted =>
                Checked.out.limit = DemoCeilings[Checked.out.period]]_vars

\* a customer with an unknown tier and one request recorded in the current
\* minute is denied for the minute, against ceiling 1
C36_Witness ==
    /\ limiter # NoLimiter
    /\ limiter.checked.tier = "trial"
    /\ ~limiter.checked.out.admitted
    /\ limiter.checked.out.period = "minute"
    /\ limiter.checked.out.current = 1
    /\ limiter.checked.out.limit = 1
    /\ limiter.checked.out.info.limits.day = 3

====
